---- MODULE Spec2Model ----
(***************************************************************************)
(* A model of the shesh command shell (6z7y/shesh).                        *)
(*                                                                         *)
(* A line of text is a sequence of one-character strings.  The tree        *)
(* parser of parse.rs (parse_syntax, find_outside_quotes, tokenize) and    *)
(* the token path of shell.rs / b_mod.rs / b_symbols.rs (parse_input,      *)
(* expand_tokens, execute_command, handle_symbols and its handlers) are    *)
(* translated function by function.  Two specifications apply them to      *)
(* every line of a bounded set: SpecParse (parse.rs) and Spec (the         *)
(* read-execute path of shell::execute).                                   *)
(***************************************************************************)
EXTENDS Naturals, Integers, Sequences, FiniteSets, TLC

VARIABLES
  line,         \* the input line handed to the parser / to shell::execute
  pc,           \* "input" before the line is handled, then the operation applied
  tree,         \* parse.rs: the ParsedCommand parse_syntax returned
  toks,         \* the token list tokenize / parse_input returned
  outcome,      \* the Result<(), String> shell::execute returned
  spawned,      \* the child processes started while handling the line, in order
  opened,       \* the files opened for redirection while handling the line
  aliases,      \* b_core ALIASES: "unset" (OnceLock never initialised) or a map
  env_vars,     \* b_core ENV_VARS: "unset" or a map
  cwd,          \* the working directory of the shell process
  vim_enabled,  \* utils VIM_ENABLED
  trace,        \* process_exec.rs: the system calls made while handling the command
  lookup,       \* the value get_env_var / expand / an expansion returned
  exit_code,    \* environment: the programs that exist, each with its exit code
  sys_env,      \* environment: the inherited process environment
  dir_entries,  \* environment: the entries of the current directory, in read_dir order
  unopenable    \* environment: the files that cannot be opened or created

\* what handling a line may change besides its own result
world_vars == <<spawned, opened, aliases, env_vars, cwd, vim_enabled, trace>>

\* what the shell only reads
environment == <<exit_code, sys_env, dir_entries, unopenable>>

vars == <<line, pc, tree, toks, outcome, world_vars, environment, lookup>>

----------------------------------------------------------------------------
(* Bounds of the model.                                                    *)

\* every line over the alphabet up to this length is an input
MaxLen == 3

----------------------------------------------------------------------------
(* Characters and strings.                                                 *)

SQ == "'"
DQ == "\""
BS == "\\"
SP == " "
TAB == "\t"
HASH == "#"

\* All sequences over S of length at most n.
RECURSIVE SeqsUpTo(_, _)
SeqsUpTo(S, n) ==
  IF n = 0 THEN {<<>>}
  ELSE LET shorter == SeqsUpTo(S, n - 1)
       IN shorter \cup {Append(s, c) : s \in {t \in shorter : Len(t) = n - 1}, c \in S}

\* &str::starts_with on the suffix input[i..] (1-based i).
StartsWith(input, i, target) ==
  /\ i + Len(target) - 1 <= Len(input)
  /\ SubSeq(input, i, i + Len(target) - 1) = target

\* input[i..] (1-based i).
Suffix(input, i) == SubSeq(input, i, Len(input))

SetMin(S) == CHOOSE m \in S : \A n \in S : m <= n

\* Vec<String>::join(" ")
RECURSIVE Join(_)
Join(ws) ==
  IF ws = <<>> THEN <<>>
  ELSE IF Len(ws) = 1 THEN ws[1]
  ELSE ws[1] \o <<SP>> \o Join(Tail(ws))

----------------------------------------------------------------------------
(* parse.rs: the command tree.                                             *)

\* ParsedCommand::Single(Vec<String>)
Single(args) == [kind |-> "Single", args |-> args]

\* ParsedCommand::BinaryOp(Box<ParsedCommand>, Operator, Box<ParsedCommand>)
BinaryOp(l, op, r) == [kind |-> "BinaryOp", left |-> l, op |-> op, right |-> r]

\* No tree yet (parse_syntax has not been applied).
NoTree == [kind |-> "None"]

\* static OPERATORS: the operator strings with their Operator, in table order.
OPERATORS ==
  << [str |-> <<"&", ">", ">">>, op |-> "Redirect(BothAppend)"],
     [str |-> <<"&", ">">>,      op |-> "Redirect(Both)"],
     [str |-> <<"2", ">", ">">>, op |-> "Redirect(StderrAppend)"],
     [str |-> <<"2", ">">>,      op |-> "Redirect(Stderr)"],
     [str |-> <<">", ">">>,      op |-> "Redirect(StdoutAppend)"],
     [str |-> <<">">>,           op |-> "Redirect(Stdout)"],
     [str |-> <<"<">>,           op |-> "Redirect(Stdin)"],
     [str |-> <<";">>,           op |-> "Seq"],
     [str |-> <<"&", "&">>,      op |-> "And"],
     [str |-> <<"|", "|">>,      op |-> "Or"],
     [str |-> <<"|">>,           op |-> "Pipe"],
     [str |-> <<"&">>,           op |-> "Background"] >>

\* find_outside_quotes: the 1-based index of the first occurrence of target
\* that the scan holds to be outside quotes, 0 for None.  q is in_quotes:
\* "" for None, else the quote character.  Every quote character either
\* closes the region of its own kind or (re)opens a region of its kind.
RECURSIVE find_scan(_, _, _, _)
find_scan(input, target, i, q) ==
  IF i > Len(input) THEN 0
  ELSE LET c == input[i] IN
    IF c \in {DQ, SQ}
      THEN find_scan(input, target, i + 1, IF q = c THEN "" ELSE c)
    ELSE IF q = "" /\ c = target[1] /\ StartsWith(input, i, target)
      THEN i
    ELSE find_scan(input, target, i + 1, q)

find_outside_quotes(input, target) ==
  IF target = <<>> THEN 0 ELSE find_scan(input, target, 1, "")

\* tokenize: the loop over the characters, then the final push.
RECURSIVE tokenize_loop(_, _, _, _, _, _, _)
tokenize_loop(input, i, tokens, current, in_single, in_double, found_comment) ==
  IF i > Len(input) THEN
    IF current # <<>> /\ ~found_comment THEN Append(tokens, current) ELSE tokens
  ELSE IF found_comment THEN
    tokenize_loop(input, i + 1, tokens, current, in_single, in_double, TRUE)
  ELSE LET c == input[i] IN
    IF c = BS THEN
      IF i + 1 <= Len(input)
        THEN tokenize_loop(input, i + 2, tokens, Append(current, input[i + 1]),
                           in_single, in_double, FALSE)
        ELSE tokenize_loop(input, i + 1, tokens, current, in_single, in_double, FALSE)
    ELSE IF c = DQ /\ ~in_single THEN
      tokenize_loop(input, i + 1, tokens, current, in_single, ~in_double, FALSE)
    ELSE IF c = SQ /\ ~in_double THEN
      tokenize_loop(input, i + 1, tokens, current, ~in_single, in_double, FALSE)
    ELSE IF c = HASH /\ ~in_single /\ ~in_double THEN
      tokenize_loop(input, i + 1, tokens, current, in_single, in_double, TRUE)
    ELSE IF c = SP /\ ~in_single /\ ~in_double THEN
      IF current # <<>>
        THEN tokenize_loop(input, i + 1, Append(tokens, current), <<>>,
                           in_single, in_double, FALSE)
        ELSE tokenize_loop(input, i + 1, tokens, current, in_single, in_double, FALSE)
    ELSE
      tokenize_loop(input, i + 1, tokens, Append(current, c), in_single, in_double, FALSE)

tokenize(input) == tokenize_loop(input, 1, <<>>, <<>>, FALSE, FALSE, FALSE)

\* parse_syntax, first statement: the input is a single operator of OPERATORS.
IsBareOperator(input) == \E k \in 1..Len(OPERATORS) : input = OPERATORS[k].str

\* A wrong split rule: the operator whose occurrence is leftmost in the line
\* (the longest one at that place), whatever its rank in the table.
SplitOperatorLeftmost(input) ==
  LET hits == {k \in 1..Len(OPERATORS) : find_outside_quotes(input, OPERATORS[k].str) # 0}
      at(k) == find_outside_quotes(input, OPERATORS[k].str)
  IN IF hits = {} THEN 0
     ELSE LET first == SetMin({at(k) : k \in hits})
          IN SetMin({k \in hits : at(k) = first})

\* parse_syntax, OPERATORS.iter().find_map(..): the table index of the first
\* operator, in table order, that find_outside_quotes finds; 0 when none does.
SplitOperator(input) ==
  LET hits == {k \in 1..Len(OPERATORS) : find_outside_quotes(input, OPERATORS[k].str) # 0}
  IN IF hits = {} THEN 0 ELSE SetMin(hits)

\* parse_syntax
RECURSIVE parse_syntax(_)
parse_syntax(input) ==
  IF IsBareOperator(input) THEN Single(<<>>)
  ELSE LET k == SplitOperator(input) IN
    IF k = 0 THEN Single(tokenize(input))
    ELSE LET op_str == OPERATORS[k].str
             index  == find_outside_quotes(input, op_str)
             left   == SubSeq(input, 1, index - 1)
             right  == Suffix(input, index + Len(op_str))
         IN BinaryOp(parse_syntax(left), OPERATORS[k].op, parse_syntax(right))

----------------------------------------------------------------------------
(* Results.  A Rust panic and the exit built-in end the handling of the    *)
(* line at once; both are carried upwards like an error.                   *)

Ok == [kind |-> "Ok", msg |-> "", code |-> 0]
Err(m) == [kind |-> "Err", msg |-> m, code |-> 0]
\* Err(format!("... code {}", status.code()))
Failed(m, c) == [kind |-> "Err", msg |-> m, code |-> c]
Panic(m) == [kind |-> "Panic", msg |-> m, code |-> 0]
Exited == [kind |-> "Exit", msg |-> "", code |-> 0]

\* The handling of the line cannot go on after r.
Aborts(r) == r.kind \in {"Panic", "Exit"}

\* Option::None for a looked-up string.
None == "None"

\* A OnceLock that was never initialised: a map whose only key is no string
\* of characters, so that it differs from every map the program can build.
Unset == [n \in {<<"unset">>} |-> <<>>]

\* shell::execute has not returned yet.
NoOutcome == [kind |-> "None", msg |-> "", code |-> 0]

----------------------------------------------------------------------------
(* shell.rs: parse_input.                                                  *)

\* parse_input, first loop: quote-aware split into words.  The quotes that
\* open and close a region are dropped; an escaped character keeps its
\* backslash.
RECURSIVE parse_input_words(_, _, _, _, _, _, _)
parse_input_words(input, i, tokens, current, in_quotes, quote_char, escape_next) ==
  IF i > Len(input) THEN
    IF current # <<>> THEN Append(tokens, current) ELSE tokens
  ELSE LET c == input[i] IN
    IF c = BS /\ ~escape_next THEN
      parse_input_words(input, i + 1, tokens, current, in_quotes, quote_char, TRUE)
    ELSE IF c \in {DQ, SQ} /\ ~escape_next THEN
      IF ~in_quotes THEN
        parse_input_words(input, i + 1, tokens, current, TRUE, c, escape_next)
      ELSE IF c = quote_char THEN
        parse_input_words(input, i + 1, tokens, current, FALSE, quote_char, escape_next)
      ELSE
        parse_input_words(input, i + 1, tokens, Append(current, c), in_quotes,
                          quote_char, escape_next)
    ELSE IF c \in {SP, TAB} /\ ~in_quotes /\ ~escape_next THEN
      IF current # <<>>
        THEN parse_input_words(input, i + 1, Append(tokens, current), <<>>,
                               in_quotes, quote_char, escape_next)
        ELSE parse_input_words(input, i + 1, tokens, current, in_quotes,
                               quote_char, escape_next)
    ELSE
      parse_input_words(input, i + 1, tokens,
                        (IF escape_next THEN Append(current, BS) ELSE current) \o <<c>>,
                        in_quotes, quote_char, FALSE)

\* temp with current_part pushed when it is not empty.
Flush(temp, current_part) ==
  IF current_part # <<>> THEN Append(temp, current_part) ELSE temp

\* chars.peek() when the next unread character is token[j].
Peek(token, j) == IF j <= Len(token) THEN token[j] ELSE None

\* parse_input, second loop, for one word: the symbols are split off.  i is
\* the character chars.next() returns.
RECURSIVE parse_input_symbols(_, _, _, _)
parse_input_symbols(token, i, temp, current_part) ==
  IF i > Len(token) THEN Flush(temp, current_part)
  ELSE LET c == token[i] IN
    IF c = "2" /\ Peek(token, i + 1) = "4" THEN
      IF Peek(token, i + 2) = ">" THEN
        \* "24>" is one token
        parse_input_symbols(token, i + 3, Append(Flush(temp, current_part), <<"2", "4", ">">>), <<>>)
      ELSE
        \* '2' and '4' are pushed, the '4' is consumed, and control falls
        \* through to the tests below with c = '2': it is pushed once more
        parse_input_symbols(token, i + 2, temp, current_part \o <<"2", "4">> \o <<c>>)
    ELSE IF c = ">" THEN
      IF Peek(token, i + 1) = ">"
        THEN parse_input_symbols(token, i + 2, Append(Flush(temp, current_part), <<">", ">">>), <<>>)
        ELSE parse_input_symbols(token, i + 1, Append(Flush(temp, current_part), <<">">>), <<>>)
    ELSE IF c \in {"1", "2", "&"} /\ Peek(token, i + 1) = ">" THEN
      IF Peek(token, i + 2) = ">"
        THEN parse_input_symbols(token, i + 3, Append(Flush(temp, current_part), <<c, ">", ">">>), <<>>)
        ELSE parse_input_symbols(token, i + 2, Append(Flush(temp, current_part), <<c, ">">>), <<>>)
    ELSE IF c \in {";", "|", "&", "<"} THEN
      parse_input_symbols(token, i + 1, Append(Flush(temp, current_part), <<c>>), <<>>)
    ELSE
      parse_input_symbols(token, i + 1, temp, Append(current_part, c))

RECURSIVE parse_input_split(_)
parse_input_split(tokens) ==
  IF tokens = <<>> THEN <<>>
  ELSE parse_input_symbols(tokens[1], 1, <<>>, <<>>) \o parse_input_split(Tail(tokens))

\* parse_input: always Ok(result).
parse_input(input) ==
  parse_input_split(parse_input_words(input, 1, <<>>, <<>>, FALSE, "", FALSE))

----------------------------------------------------------------------------
(* b_core (commands/core.rs): the environment.                             *)

\* get_env_var: the inherited environment first, then the ENV_VARS store.
get_env_var(name, env, overlay) ==
  IF name \in DOMAIN env THEN env[name]
  ELSE IF overlay # Unset /\ name \in DOMAIN overlay THEN overlay[name]
  ELSE None

----------------------------------------------------------------------------
(* utils.rs: expand.                                                       *)

\* char::is_alphanumeric, for the characters of the model.
Alphanumeric ==
  {"a", "b", "c", "d", "e", "f", "g", "h", "i", "j", "k", "l", "m", "n", "o",
   "p", "q", "r", "s", "t", "u", "v", "w", "x", "y", "z",
   "0", "1", "2", "3", "4", "5", "6", "7", "8", "9"}

\* expand, ${NAME}: the characters up to the closing brace (or the end).
RECURSIVE BracedNameEnd(_, _)
BracedNameEnd(input, j) ==
  IF j > Len(input) \/ input[j] = "}" THEN j ELSE BracedNameEnd(input, j + 1)

\* expand, $NAME: the run of alphanumerics and underscores.
RECURSIVE PlainNameEnd(_, _)
PlainNameEnd(input, j) ==
  IF j <= Len(input) /\ (input[j] \in Alphanumeric \/ input[j] = "_")
    THEN PlainNameEnd(input, j + 1) ELSE j

\* expand: the loop; the result is [kind, msg, val].
RECURSIVE expand_loop(_, _, _, _, _, _, _, _)
expand_loop(input, i, output, in_double_quotes, in_single_quotes, escape_next, env, overlay) ==
  IF i > Len(input) THEN
    IF in_double_quotes \/ in_single_quotes
      THEN [kind |-> "Err", msg |-> "Unclosed quotes", val |-> <<>>]
      ELSE [kind |-> "Ok", msg |-> "", val |-> output]
  ELSE LET c == input[i] IN
    IF escape_next THEN
      expand_loop(input, i + 1, Append(output, c), in_double_quotes, in_single_quotes,
                  FALSE, env, overlay)
    ELSE IF c = BS THEN
      expand_loop(input, i + 1, output, in_double_quotes, in_single_quotes, TRUE, env, overlay)
    ELSE IF c = DQ /\ ~in_single_quotes THEN
      expand_loop(input, i + 1, output, ~in_double_quotes, in_single_quotes, FALSE, env, overlay)
    ELSE IF c = SQ /\ ~in_double_quotes THEN
      expand_loop(input, i + 1, output, in_double_quotes, ~in_single_quotes, FALSE, env, overlay)
    ELSE IF c = "$" /\ ~in_single_quotes THEN
      LET braced   == Peek(input, i + 1) = "{"
          first    == IF braced THEN i + 2 ELSE i + 1
          stop     == IF braced THEN BracedNameEnd(input, first) ELSE PlainNameEnd(input, first)
          var_name == SubSeq(input, first, stop - 1)
          next     == IF braced THEN stop + 1 ELSE stop
          value    == get_env_var(var_name, env, overlay)
      IN IF var_name = <<>> THEN
           expand_loop(input, next, Append(output, "$"), in_double_quotes,
                       in_single_quotes, FALSE, env, overlay)
         ELSE IF value # None THEN
           expand_loop(input, next, output \o value, in_double_quotes,
                       in_single_quotes, FALSE, env, overlay)
         ELSE [kind |-> "Err", msg |-> "environment variable not found", val |-> <<>>]
    ELSE
      expand_loop(input, i + 1, Append(output, c), in_double_quotes, in_single_quotes,
                  FALSE, env, overlay)

expand(input, env, overlay) ==
  expand_loop(input, 1, <<>>, FALSE, FALSE, FALSE, env, overlay)

----------------------------------------------------------------------------
(* shell.rs: expand_tokens.                                                *)

\* expand_tokens, for one token.  A token that is one quote character alone
\* starts and ends with it, and &token[1..token.len()-1] is &token[1..0].
shell_expand_token(token, env, overlay) ==
  IF token[1] = DQ /\ token[Len(token)] = DQ THEN
    IF Len(token) < 2
      THEN [kind |-> "Panic", msg |-> "slice index starts at 1 but ends at 0", val |-> <<>>]
      ELSE expand(SubSeq(token, 2, Len(token) - 1), env, overlay)
  ELSE IF token[1] = SQ /\ token[Len(token)] = SQ THEN
    IF Len(token) < 2
      THEN [kind |-> "Panic", msg |-> "slice index starts at 1 but ends at 0", val |-> <<>>]
      ELSE [kind |-> "Ok", msg |-> "", val |-> SubSeq(token, 2, Len(token) - 1)]
  ELSE expand(token, env, overlay)

\* expand_tokens: the tokens in order, up to the first that fails; the
\* result is [kind, msg, val] with val the expanded tokens.
RECURSIVE shell_expand_tokens(_, _, _)
shell_expand_tokens(tokens, env, overlay) ==
  IF tokens = <<>> THEN [kind |-> "Ok", msg |-> "", val |-> <<>>]
  ELSE LET head == shell_expand_token(tokens[1], env, overlay) IN
    IF head.kind # "Ok" THEN head
    ELSE LET rest == shell_expand_tokens(Tail(tokens), env, overlay) IN
      IF rest.kind # "Ok" THEN rest
      ELSE [kind |-> "Ok", msg |-> "", val |-> <<head.val>> \o rest.val]

----------------------------------------------------------------------------
(* String helpers of the standard library.                                 *)

\* str::contains(char)
HasChar(str, c) == \E i \in 1..Len(str) : str[i] = c

\* str::find(char): the 1-based index of the first c, 0 for None.
FindChar(str, c) ==
  IF HasChar(str, c) THEN SetMin({i \in 1..Len(str) : str[i] = c}) ELSE 0

\* str::trim
RECURSIVE Trim(_)
Trim(str) ==
  IF str = <<>> THEN str
  ELSE IF str[1] \in {SP, TAB} THEN Trim(Tail(str))
  ELSE IF str[Len(str)] \in {SP, TAB} THEN Trim(SubSeq(str, 1, Len(str) - 1))
  ELSE str

\* str::trim_matches(c)
RECURSIVE TrimMatches(_, _)
TrimMatches(str, c) ==
  IF str = <<>> THEN str
  ELSE IF str[1] = c THEN TrimMatches(Tail(str), c)
  ELSE IF str[Len(str)] = c THEN TrimMatches(SubSeq(str, 1, Len(str) - 1), c)
  ELSE str

\* str::split(c): the pieces between the separators, empty ones included.
RECURSIVE SplitOn(_, _)
SplitOn(str, c) ==
  LET k == FindChar(str, c) IN
    IF k = 0 THEN <<str>>
    ELSE <<SubSeq(str, 1, k - 1)>> \o SplitOn(Suffix(str, k + 1), c)

\* str::split_whitespace: the non-empty words between blanks.
RECURSIVE SplitWhitespaceLoop(_, _, _, _)
SplitWhitespaceLoop(str, i, words, current) ==
  IF i > Len(str) THEN Flush(words, current)
  ELSE IF str[i] \in {SP, TAB}
    THEN SplitWhitespaceLoop(str, i + 1, Flush(words, current), <<>>)
    ELSE SplitWhitespaceLoop(str, i + 1, words, Append(current, str[i]))

SplitWhitespace(str) == SplitWhitespaceLoop(str, 1, <<>>, <<>>)

\* str::replace(pat, to), pat not empty.
RECURSIVE Replace(_, _, _)
Replace(str, pat, to) ==
  IF str = <<>> THEN <<>>
  ELSE IF StartsWith(str, 1, pat) THEN to \o Replace(Suffix(str, Len(pat) + 1), pat, to)
  ELSE <<str[1]>> \o Replace(Tail(str), pat, to)

\* The decimal digits of a number below 100, as format!("{}", n) prints it.
Digit(n) == <<"0", "1", "2", "3", "4", "5", "6", "7", "8", "9">>[n + 1]
Decimal(n) == IF n < 10 THEN <<Digit(n)>> ELSE <<Digit(n \div 10), Digit(n % 10)>>

\* Iterator::flat_map over a sequence: the results of f, concatenated.
RECURSIVE FlatMap(_, _)
FlatMap(f(_), xs) ==
  IF xs = <<>> THEN <<>> ELSE f(xs[1]) \o FlatMap(f, Tail(xs))

\* The elements of xs that satisfy keep, in order.
RECURSIVE Filter(_, _)
Filter(keep(_), xs) ==
  IF xs = <<>> THEN <<>>
  ELSE (IF keep(xs[1]) THEN <<xs[1]>> ELSE <<>>) \o Filter(keep, Tail(xs))

----------------------------------------------------------------------------
(* utils.rs: expand_tilde.                                                 *)

\* std::env::home_dir() of the model's user.
HomeDir == <<"/", "h">>

\* expand_tilde: a leading ~ is replaced by the home directory.
expand_tilde(path) ==
  IF path # <<>> /\ path[1] = "~" THEN HomeDir \o Tail(path) ELSE path

----------------------------------------------------------------------------
(* b_symbols.rs: brace, wildcard and symbol expansion of tokens.           *)

\* matches_pattern: the loop over the name, then the trailing stars.  The
\* indices are 0-based as in the source; star is -1 for None.
\* matches_pattern without the loop that skips trailing stars.
matches_trailing_not(pattern, p_idx) == p_idx

RECURSIVE matches_trailing(_, _)
matches_trailing(pattern, p_idx) ==
  IF p_idx < Len(pattern) /\ pattern[p_idx + 1] = "*"
    THEN matches_trailing(pattern, p_idx + 1) ELSE p_idx

RECURSIVE matches_loop(_, _, _, _, _, _)
matches_loop(pattern, name, p_idx, n_idx, star, star_match_idx) ==
  IF ~(n_idx < Len(name)) THEN
    matches_trailing(pattern, p_idx) = Len(pattern) /\ n_idx = Len(name)
  ELSE IF p_idx < Len(pattern) /\ pattern[p_idx + 1] = "*" THEN
    matches_loop(pattern, name, p_idx + 1, n_idx, p_idx, n_idx)
  ELSE IF p_idx < Len(pattern) /\ pattern[p_idx + 1] = name[n_idx + 1] THEN
    matches_loop(pattern, name, p_idx + 1, n_idx + 1, star, star_match_idx)
  ELSE IF star # -1 THEN
    matches_loop(pattern, name, star + 1, star_match_idx + 1, star, star_match_idx + 1)
  ELSE FALSE

matches_pattern(pattern, name) == matches_loop(pattern, name, 0, 0, -1, 0)

\* str::rfind(char): the 1-based index of the last c, 0 for None.
RFindChar(str, c) ==
  IF HasChar(str, c) THEN CHOOSE i \in 1..Len(str) :
                            str[i] = c /\ \A j \in (i + 1)..Len(str) : str[j] # c
  ELSE 0

\* std::fs::read_dir(dir): an error for a directory that cannot be read,
\* else its entries in read_dir order.
read_dir(dir, unreadable, entries) ==
  IF dir \in unreadable THEN [ok |-> FALSE, entries |-> <<>>]
  ELSE [ok |-> TRUE, entries |-> entries]

\* Path::join(dir, name)
PathJoin(dir, name) ==
  IF dir[Len(dir)] = "/" THEN dir \o name ELSE dir \o <<"/">> \o name

\* expand_wildcard, for a pattern whose last path component is not empty:
\* the pattern itself when it has no '*', when its directory cannot be
\* read or when nothing matches; else the matching entries that are not
\* hidden, each joined to the directory ("." for a pattern without '/').
expand_wildcard_in(pattern, unreadable, entries) ==
  IF ~HasChar(pattern, "*") THEN <<pattern>>
  ELSE LET slash        == RFindChar(pattern, "/")
           parent       == IF slash = 1 THEN <<"/">> ELSE SubSeq(pattern, 1, slash - 1)
           dir          == IF parent = <<>> THEN <<".">> ELSE parent
           file_pattern == Suffix(pattern, slash + 1)
           listing      == read_dir(dir, unreadable, entries)
           visible(name) == ~(name[1] = "." /\ ~(file_pattern[1] = "."))
           hit(name)    == visible(name) /\ matches_pattern(file_pattern, name)
           matches      == Filter(hit, listing.entries)
           full(name)   == <<PathJoin(dir, name)>>
       IN IF ~listing.ok THEN <<pattern>>
          ELSE IF matches = <<>> THEN <<pattern>>
          ELSE FlatMap(full, matches)

\* expand_wildcard where every directory can be read.
expand_wildcard(pattern, entries) == expand_wildcard_in(pattern, {}, entries)

\* expand_braces, the '}' arm: the comma-separated alternatives of the text
\* read since '{', trimmed, the empty ones dropped.
BraceParts(result) ==
  LET pieces(str) == SplitOn(str, ",")
      trimmed(str) == <<Trim(str)>>
      nonempty(str) == str # <<>>
  IN Filter(nonempty, FlatMap(trimmed, FlatMap(pieces, result)))

\* expand_braces: the loop.  result and stack are the vectors of the
\* source; one level of braces is tracked (in_brace is a flag).
RECURSIVE expand_braces_loop(_, _, _, _, _)
expand_braces_loop(input, i, result, stack, in_brace) ==
  IF i > Len(input) THEN result
  ELSE LET c == input[i] IN
    IF c = "{" /\ ~in_brace THEN
      expand_braces_loop(input, i + 1, << <<>> >>, Append(stack, result), TRUE)
    ELSE IF c = "}" /\ in_brace THEN
      LET parts == BraceParts(result)
          prevs == stack[Len(stack)]
          with(prev) == [k \in 1..Len(parts) |-> prev \o parts[k]]
      IN expand_braces_loop(input, i + 1, FlatMap(with, prevs),
                            SubSeq(stack, 1, Len(stack) - 1), FALSE)
    ELSE
      expand_braces_loop(input, i + 1, [k \in 1..Len(result) |-> Append(result[k], c)],
                         stack, in_brace)

\* expand_braces that starts from vec![] and not from vec![String::new()].
expand_braces_from_nothing(input) == expand_braces_loop(input, 1, <<>>, <<>>, FALSE)

expand_braces(input) == expand_braces_loop(input, 1, << <<>> >>, <<>>, FALSE)

\* expand_tokens, "Separate attached symbols": every character of ";|&<>"
\* becomes a token of its own.
RECURSIVE separate_symbols(_, _, _, _)
separate_symbols(token, i, temp, current) ==
  IF i > Len(token) THEN Flush(temp, current)
  ELSE IF token[i] \in {";", "|", "&", "<", ">"}
    THEN separate_symbols(token, i + 1, Append(Flush(temp, current), <<token[i]>>), <<>>)
    ELSE separate_symbols(token, i + 1, temp, Append(current, token[i]))

\* b_symbols::expand_tokens: symbols separated, then tilde, braces and
\* wildcards for every piece.
b_symbols_expand_tokens(tokens, entries) ==
  LET wild(b) == expand_wildcard(b, entries)
      piece(t) == FlatMap(wild, expand_braces(expand_tilde(t)))
      token(tok) == FlatMap(piece, separate_symbols(tok, 1, <<>>, <<>>))
  IN FlatMap(token, tokens)

----------------------------------------------------------------------------
(* parse.rs: process_tokens.                                               *)

\* The name of the variable that holds the home directory.
HOME == <<"H", "O", "M", "E">>

\* A panic of process_tokens, or the strings it returns.
TokensPanic == [kind |-> "Panic", val |-> <<>>]
Tokens(val) == [kind |-> "Ok", val |-> val]

\* process_tokens, the arm for a part that contains '*': every entry of
\* dir for "dir/*" and every entry of "." for "*", when the directory can be
\* read; the part itself otherwise.
process_wildcard_part(part, unreadable, entries) ==
  LET slash_pos == RFindChar(part, "/")
      dir       == SubSeq(part, 1, slash_pos)
      pattern   == Suffix(part, slash_pos + 1)
      in_dir(filename) == <<dir \o filename>>
      as_is(filename)  == <<filename>>
  IN IF slash_pos # 0 THEN
       IF pattern = <<"*">> /\ read_dir(dir, unreadable, entries).ok
         THEN FlatMap(in_dir, read_dir(dir, unreadable, entries).entries)
         ELSE <<part>>
     ELSE IF part = <<"*">> /\ read_dir(<<".">>, unreadable, entries).ok
       THEN FlatMap(as_is, read_dir(<<".">>, unreadable, entries).entries)
     ELSE <<part>>

\* process_tokens for ParsedCommand::Single(parts): the arms in the order
\* of the match ($, *, ~, braces, anything else).  The brace arm cuts the
\* part at its first '{' and its first '}' and processes every alternative
\* again; the slice part[start + 1..end] panics when the '}' comes first.
RECURSIVE process_tokens(_, _, _, _)
process_tokens(parts, env, unreadable, entries) ==
  IF parts = <<>> THEN Tokens(<<>>)
  ELSE
    LET part  == parts[1]
        start == FindChar(part, "{")
        end   == FindChar(part, "}")
        new(opt) == SubSeq(part, 1, start - 1) \o opt \o Suffix(part, end + 1)
        then(first) ==
          IF first.kind = "Panic" THEN TokensPanic
          ELSE LET k(rest) == IF rest.kind = "Panic" THEN TokensPanic
                              ELSE Tokens(first.val \o rest.val)
               IN k(process_tokens(Tail(parts), env, unreadable, entries))
    IN IF StartsWith(part, 1, <<"$">>) THEN
         then(Tokens(<<IF Tail(part) \in DOMAIN env THEN env[Tail(part)] ELSE <<>>>>))
       ELSE IF HasChar(part, "*") THEN
         then(Tokens(process_wildcard_part(part, unreadable, entries)))
       ELSE IF StartsWith(part, 1, <<"~">>) THEN
         then(Tokens(<<IF HOME \in DOMAIN env THEN env[HOME] \o Tail(part) ELSE part>>))
       ELSE IF HasChar(part, "{") /\ HasChar(part, "}") THEN
         IF start + 1 > end THEN TokensPanic
         ELSE LET opts == SplitOn(SubSeq(part, start + 1, end - 1), ",")
                  news == [k \in 1..Len(opts) |-> new(opts[k])]
              IN then(process_tokens(news, env, unreadable, entries))
       ELSE then(Tokens(<<part>>))

----------------------------------------------------------------------------
(* The state a line is handled in.  The handlers are functions from a      *)
(* world w (the fields of world_vars) to a result r and the world after.   *)

World == [spawned |-> spawned, opened |-> opened, aliases |-> aliases,
          env_vars |-> env_vars, cwd |-> cwd, vim_enabled |-> vim_enabled,
          trace |-> trace]

Returns(r, w) == [r |-> r, w |-> w]

\* A program exists when the environment gives it an exit code.
Found(program) == program \in DOMAIN exit_code

\* A child process: its argument vector, the call that started it and
\* whether the shell's main thread has waited for it.
Child(argv, how, waited) == [argv |-> argv, how |-> how, waited |-> waited]

WithChild(w, child) == [w EXCEPT !.spawned = Append(@, child)]

\* std::env::set_current_dir succeeds for these.
ExistingDirs == {HomeDir, <<"/">>}

----------------------------------------------------------------------------
(* b_core (commands/core.rs): aliases, built-ins, external commands.       *)

\* lookup_alias
lookup_alias(name, map) ==
  IF map # Unset /\ name \in DOMAIN map THEN map[name] ELSE None

\* set_alias / HashMap::insert on a store that get_or_init creates.
Insert(map, name, value) ==
  LET old == IF map = Unset THEN <<>> ELSE map
  IN [n \in DOMAIN old \cup {name} |-> IF n = name THEN value ELSE old[n]]

\* const MAX_DEPTH in expand_aliases
MAX_DEPTH == 10

\* expand_aliases, "Replace parameters ($1, $2, ...)": the i-th word of the
\* arguments replaces $i, for i = 1, 2, ... in turn.
RECURSIVE ReplaceParams(_, _, _)
ReplaceParams(expanded, args, i) ==
  IF i > Len(args) THEN expanded
  ELSE CHOOSE done \in
         {ReplaceParams(replaced, args, i + 1) :
            replaced \in {Replace(expanded, <<"$">> \o Decimal(i), args[i])}} : TRUE

\* expand_aliases with a loop that admits one substitution more.
expand_aliases_continues_once_more(depth) == depth <= MAX_DEPTH

\* expand_aliases: `while depth < MAX_DEPTH`.
expand_aliases_continues(depth) == depth < MAX_DEPTH

\* expand_aliases: parts[0] of splitn(2, ' '), the text up to the first blank.
alias_first_part(current) ==
  LET k == FindChar(current, SP)
  IN IF k = 0 THEN current ELSE SubSeq(current, 1, k - 1)

\* expand_aliases: new_cmd, one substitution of an alias that exists.
expand_aliases_new_cmd(current, map) ==
  LET k         == FindChar(current, SP)
      rest      == Suffix(current, k + 1)
      alias_cmd == lookup_alias(alias_first_part(current), map)
  IN IF k # 0
       THEN CHOOSE expanded \in
              {ReplaceParams(alias_cmd, args, 1) \o <<SP>> \o rest :
                 args \in {SplitWhitespace(rest)}} : TRUE
       ELSE alias_cmd

\* expand_aliases: the loop, at most MAX_DEPTH substitutions of the first
\* word; it yields the text and the number of substitutions made.
RECURSIVE expand_aliases_loop(_, _, _)
expand_aliases_loop(current, depth, map) ==
  IF ~expand_aliases_continues(depth) THEN [result |-> current, depth |-> depth]
  ELSE IF lookup_alias(alias_first_part(current), map) = None
         THEN [result |-> current, depth |-> depth]
  ELSE CHOOSE returned \in
         {expand_aliases_loop(new_cmd, depth + 1, map) :
            new_cmd \in {expand_aliases_new_cmd(current, map)}} : TRUE

\* expand_aliases: "Alias expansion depth limit reached" is printed.
expand_aliases_warns(depth) == depth >= MAX_DEPTH

expand_aliases(input, map) == expand_aliases_loop(input, 0, map).result

\* str::replacen(pat, to, 1): the first occurrence of pat is replaced.
RECURSIVE ReplaceFirst(_, _, _)
ReplaceFirst(str, pat, to) ==
  IF str = <<>> THEN <<>>
  ELSE IF StartsWith(str, 1, pat) THEN to \o Suffix(str, Len(pat) + 1)
  ELSE <<str[1]>> \o ReplaceFirst(Tail(str), pat, to)

\* builtins::expand_aliases: one substitution of the first word, no loop.
builtins_expand_aliases(input, map) ==
  LET words == SplitWhitespace(input)
  IN IF words = <<>> THEN [result |-> input, depth |-> 0]
     ELSE IF map = Unset THEN [result |-> input, depth |-> 0]
     ELSE IF words[1] \in DOMAIN map
       THEN [result |-> ReplaceFirst(input, words[1], map[words[1]]), depth |-> 1]
     ELSE [result |-> input, depth |-> 0]

\* handle_alias_cmd
handle_alias_cmd(args, w) ==
  IF args = <<>> THEN
    IF w.aliases = Unset
      THEN Returns(Panic("called Option::unwrap() on a None value"), w)
      ELSE Returns(Ok, w)
  ELSE LET full   == Join(args)
           eq_pos == FindChar(full, "=")
           sp_pos == FindChar(full, SP)
           cut    == IF eq_pos # 0 THEN eq_pos ELSE sp_pos
           name   == Trim(SubSeq(full, 1, cut - 1))
           value  == TrimMatches(Trim(Suffix(full, cut + 1)), DQ)
       IN IF cut = 0 THEN Returns(Err("Invalid alias syntax"), w)
          ELSE IF name = <<>> \/ value = <<>>
            THEN Returns(Err("Alias name and value cannot be empty"), w)
          ELSE Returns(Ok, [w EXCEPT !.aliases = Insert(@, name, value)])

\* cd
cd(args, w) ==
  LET path     == IF args = <<>> THEN <<"~">> ELSE args[1]
      expanded == expand(path, sys_env, w.env_vars)
  IN IF expanded.kind # "Ok" THEN Returns(Err(expanded.msg), w)
     ELSE LET expanded_path == expand_tilde(expanded.val) IN
       IF expanded_path \in ExistingDirs
         THEN Returns(Ok, [w EXCEPT !.cwd = expanded_path])
         ELSE Returns(Err("cd: No such file or directory"), w)

\* handle_export_cmd: every argument is split at its first '=' before the
\* store is touched; one without '=' ends the call.
handle_export_cmd(args, w) ==
  IF args = <<>> THEN Returns(Ok, w)
  ELSE IF \E k \in 1..Len(args) : ~HasChar(args[k], "=")
    THEN Returns(Err("Invalid export syntax"), w)
  ELSE LET RECURSIVE store(_, _)
           store(map, k) ==
             IF k > Len(args) THEN map
             ELSE LET pos == FindChar(args[k], "=")
                  IN store(Insert(map, SubSeq(args[k], 1, pos - 1), Suffix(args[k], pos + 1)),
                           k + 1)
       IN Returns(Ok, [w EXCEPT !.env_vars = store(@, 1)])

\* builtins::handle_export_cmd: every argument that split_once('=') can cut
\* is stored in ENV_VARS and in the process environment, the others are
\* passed over (filter_map); the result is Ok(()).
builtins_handle_export_cmd(args, w, env) ==
  LET RECURSIVE store(_, _)
      store(map, k) ==
        IF k > Len(args) THEN map
        ELSE LET pos == FindChar(args[k], "=")
             IN IF pos = 0 THEN store(map, k + 1)
                ELSE CHOOSE done \in
                       {store(next, k + 1) :
                          next \in {Insert(map, SubSeq(args[k], 1, pos - 1),
                                           Suffix(args[k], pos + 1))}} : TRUE
      cut == \E k \in 1..Len(args) : HasChar(args[k], "=")
  IN [r   |-> Ok,
      w   |-> IF cut THEN [w EXCEPT !.env_vars = store(@, 1)] ELSE w,
      env |-> IF cut THEN store(env, 1) ELSE env]

\* help
help(w) == Returns(Ok, w)

\* execute_external_command: Command::status, spawn and wait.
execute_external_command(cmd, args, w) ==
  IF ~Found(cmd) THEN Returns(Err("Command not found"), w)
  ELSE LET after == WithChild(w, Child(<<cmd>> \o args, "status", TRUE)) IN
    IF exit_code[cmd] = 0
      THEN Returns(Ok, after)
      ELSE Returns(Failed("Command failed with code", exit_code[cmd]), after)

\* handle_24_command
handle_24_command(args, w) ==
  IF args = <<>> THEN Returns(Ok, w)
  ELSE IF args[1] = <<"v", "i", "m", "_", "k", "e", "y", "s">>
    THEN Returns(Ok, [w EXCEPT !.vim_enabled = ~@])
  ELSE Returns(Err("Unknown 24! command"), w)

----------------------------------------------------------------------------
(* b_symbols.rs and b_mod.rs: the execution of a token list.               *)

\* SymbolType::from_str
SymbolType(token) ==
  CASE token = <<"|">>           -> "Pipe"
    [] token = <<">">>           -> "RedirectOut"
    [] token = <<">", ">">>      -> "RedirectAppend"
    [] token = <<"<">>           -> "RedirectIn"
    [] token = <<"1", ">">>      -> "RedirectOut"
    [] token = <<"1", ">", ">">> -> "RedirectAppend"
    [] token = <<"2", ">">>      -> "RedirectErr"
    [] token = <<"2", ">", ">">> -> "RedirectErrAppend"
    [] token = <<"&", ">">>      -> "RedirectAll"
    [] token = <<"&", ">", ">">> -> "RedirectAllAppend"
    [] token = <<"&">>           -> "Background"
    [] token = <<"&", "&">>      -> "AndAnd"
    [] token = <<";">>           -> "Semicolon"
    [] OTHER                     -> None

\* handle_redirection
handle_redirection(symbol, cmd_tokens, file_name, w) ==
  IF cmd_tokens = <<>> THEN Returns(Err("Missing command"), w)
  ELSE LET append == symbol \in {"RedirectAppend", "RedirectErrAppend",
                                 "RedirectAllAppend"}
           status(expanded_tokens, after_open) ==
             IF ~Found(expanded_tokens[1])
               THEN Returns(Err("No such file or directory"), after_open)
               ELSE Returns(IF exit_code[expanded_tokens[1]] = 0
                              THEN Ok
                              ELSE Failed("Command failed with code",
                                          exit_code[expanded_tokens[1]]),
                            WithChild(after_open, Child(expanded_tokens, "redirect", TRUE)))
           redirect(expanded_tokens, expanded_file) ==
             IF expanded_tokens = <<>> THEN Returns(Panic("index out of bounds"), w)
             ELSE IF symbol = "RedirectIn" THEN Returns(Err("Unsupported redirection"), w)
             ELSE IF expanded_file \in unopenable THEN Returns(Err("cannot open file"), w)
             ELSE status(expanded_tokens,
                         [w EXCEPT !.opened =
                            Append(@, [file |-> expanded_file, append |-> append])])
       IN redirect(b_symbols_expand_tokens(cmd_tokens, dir_entries),
                   expand_tilde(file_name))

\* handle_pipe, "Split right_cmd into individual commands"
RECURSIVE pipe_commands(_, _, _)
pipe_commands(right_cmd, commands, current) ==
  IF right_cmd = <<>> THEN Append(commands, current)
  ELSE IF right_cmd[1] = <<"|">>
    THEN pipe_commands(Tail(right_cmd), Append(commands, current), <<>>)
    ELSE pipe_commands(Tail(right_cmd), commands, Append(current, right_cmd[1]))

\* handle_pipe, the spawn loop from stage i on: the stages are spawned in
\* order; an empty or missing command ends the call with the stages spawned
\* so far still running.
RECURSIVE pipe_spawn(_, _, _)
pipe_spawn(commands, i, w) ==
  IF i > Len(commands) THEN Returns(Ok, w)
  ELSE LET spawn(expanded_tokens) ==
             IF expanded_tokens = <<>> THEN Returns(Err("Empty command in pipeline"), w)
             ELSE IF ~Found(expanded_tokens[1]) THEN Returns(Err("Failed to spawn command"), w)
             ELSE pipe_spawn(commands, i + 1,
                             WithChild(w, Child(expanded_tokens, "pipe", FALSE)))
       IN spawn(b_symbols_expand_tokens(commands[i], dir_entries))

\* handle_pipe: after the spawn loop every child is waited for, the last
\* first, and the status of the last stage decides.
handle_pipe(left_cmd, right_cmd, w) ==
  LET wait(started, stages) ==
        IF started.r.kind # "Ok" THEN started
        ELSE LET all  == started.w.spawned
                 n    == Len(all)
                 mine == (n - stages + 1)..n
                 done == [started.w EXCEPT !.spawned =
                            [k \in 1..n |-> IF k \in mine
                                              THEN [all[k] EXCEPT !.waited = TRUE]
                                              ELSE all[k]]]
                 last == exit_code[all[n].argv[1]]
             IN IF last = 0 THEN Returns(Ok, done)
                ELSE Returns(Failed("Pipeline failed with code", last), done)
      run(commands) == wait(pipe_spawn(commands, 1, w), Len(commands))
  IN run(pipe_commands(right_cmd, <<left_cmd>>, <<>>))

\* handle_background: the command runs on a thread of its own, which
\* spawns the child and waits for it; the caller gets Ok at once.  An empty
\* expansion panics on that thread only, a missing program is ignored.
handle_background(cmd_tokens, w) ==
  IF cmd_tokens = <<>> THEN Returns(Err("Missing command"), w)
  ELSE LET thread(tokens) ==
             IF tokens # <<>> /\ Found(tokens[1])
               THEN Returns(Ok, WithChild(w, Child(tokens, "background", FALSE)))
               ELSE Returns(Ok, w)
       IN thread(b_symbols_expand_tokens(cmd_tokens, dir_entries))

RECURSIVE execute_command(_, _)
RECURSIVE handle_symbols(_, _)

\* handle_and_and
handle_and_and(left_cmd, right_cmd, w) ==
  LET right(left_result) ==
        IF left_result.r.kind = "Ok"
          THEN execute_command(right_cmd, left_result.w)
          ELSE left_result
  IN right(execute_command(left_cmd, w))

\* handle_semicolon
handle_semicolon(left_cmd, right_cmd, w) ==
  LET right(left_result) ==
        IF Aborts(left_result.r) THEN left_result
        ELSE execute_command(right_cmd, left_result.w)
  IN right(execute_command(left_cmd, w))

\* handle_symbols: the first token that is a symbol decides.  pos is its
\* 1-based index.
handle_symbols(tokens, w) ==
  LET symbol_positions == {i \in 1..Len(tokens) : SymbolType(tokens[i]) # None}
      more(redirected, pos) ==
        IF redirected.r.kind # "Ok" THEN redirected
        ELSE IF Len(tokens) > pos + 1
          THEN handle_symbols(Suffix(tokens, pos + 2), redirected.w)
          ELSE redirected
      handle(pos, symbol, before, after) ==
        CASE symbol = "Pipe" -> handle_pipe(before, after, w)
          [] symbol = "Background" ->
               IF pos # Len(tokens)
                 THEN Returns(Err("Background symbol must be at the end"), w)
                 ELSE handle_background(before, w)
          [] symbol = "AndAnd" -> handle_and_and(before, after, w)
          [] symbol = "Semicolon" -> handle_semicolon(before, after, w)
          [] OTHER ->
               IF Len(tokens) <= pos THEN Returns(Err("Missing file argument"), w)
               ELSE more(handle_redirection(symbol, before, tokens[pos + 1], w), pos)
      at(pos) == handle(pos, SymbolType(tokens[pos]),
                        SubSeq(tokens, 1, pos - 1), Suffix(tokens, pos + 1))
  IN IF symbol_positions = {} THEN Returns(Err("No special symbol found"), w)
     ELSE at(SetMin(symbol_positions))

\* execute_command, from "let input_str = tokens.join(" ")" on: aliases,
\* then the built-ins, else an external command.
run_command(tokens, w) ==
  LET dispatch(cmd, args) ==
        CASE cmd = <<"a", "l", "i", "a", "s">>      -> handle_alias_cmd(args, w)
          [] cmd = <<"c", "d">>                     -> cd(args, w)
          [] cmd = <<"e", "x", "p", "o", "r", "t">> -> handle_export_cmd(args, w)
          [] cmd = <<"e", "x", "i", "t">>           -> Returns(Exited, w)
          [] cmd = <<"h", "e", "l", "p">>           -> help(w)
          [] OTHER -> execute_external_command(cmd, args, w)
      expanded(expanded_tokens) ==
        IF expanded_tokens = <<>> THEN Returns(Panic("index out of bounds"), w)
        ELSE dispatch(expanded_tokens[1], Tail(expanded_tokens))
      aliased(alias_tokens) ==
        IF alias_tokens = <<>> THEN Returns(Ok, w)
        ELSE expanded(b_symbols_expand_tokens(alias_tokens, dir_entries))
  IN aliased(SplitWhitespace(expand_aliases(Join(tokens), w.aliases)))

\* execute_command: "24>" first, then the special symbols; when
\* handle_symbols returns an error, whatever the error, the tokens are run
\* as one command.
execute_command(tokens, w) ==
  IF tokens = <<>> THEN Returns(Ok, w)
  ELSE IF tokens[1] = <<"2", "4", ">">> THEN handle_24_command(Tail(tokens), w)
  ELSE LET otherwise(symbols) ==
             IF symbols.r.kind = "Ok" \/ Aborts(symbols.r) THEN symbols
             ELSE run_command(tokens, symbols.w)
       IN otherwise(handle_symbols(tokens, w))

----------------------------------------------------------------------------
(* shell.rs: execute.                                                      *)

\* execute: parse_input, expand_tokens, execute_command.
execute(input, w) ==
  LET run(expanded_tokens) ==
        IF expanded_tokens.kind # "Ok"
          THEN Returns([kind |-> expanded_tokens.kind, msg |-> expanded_tokens.msg,
                        code |-> 0], w)
          ELSE execute_command(expanded_tokens.val, w)
  IN run(shell_expand_tokens(parse_input(input), sys_env, w.env_vars))

----------------------------------------------------------------------------
(* process_exec.rs: pipelines and background commands on fork and pipe.    *)

\* A file descriptor of a child: an end of pipe k, /dev/null, or the one
\* the shell itself has.
Fd(end, k) == [end |-> end, pipe |-> k]
Inherited == Fd("inherit", 0)
NoFd == Fd("none", 0)

\* One system call of the shell process.  For a fork, stdin and stdout are
\* what the child has made of its descriptors (dup2) when it replaces its
\* program; for a close, the end that is closed.
Syscall(op, stage, stdin, stdout) ==
  [op |-> op, stage |-> stage, stdin |-> stdin, stdout |-> stdout]

\* The commands as they are, chains not flattened.
flatten_pipes_not(commands) == commands

\* flatten_pipes
RECURSIVE flatten_pipes(_)
flatten_pipes(commands) ==
  IF commands = <<>> THEN <<>>
  ELSE LET flat(cmd) ==
             IF cmd.kind = "BinaryOp" /\ cmd.op = "Pipe"
               THEN flatten_pipes(<<cmd.left>>) \o flatten_pipes(<<cmd.right>>)
               ELSE <<cmd>>
       IN flat(commands[1]) \o flatten_pipes(Tail(commands))

\* The exit code a panic of the Rust runtime ends a process with.
PanicCode == 101

\* run_pipe, the child of the fork: the exit code of the process.  A leaf
\* is replaced by its program; when execvp fails the message names
\* args[0] of the argument list without the program name, which is out of
\* range for a command without arguments; a node that is no leaf exits 1.
pipe_child_exit(cmd) ==
  IF cmd.kind # "Single" THEN 1
  ELSE IF cmd.args = <<>> THEN PanicCode
  ELSE IF Found(cmd.args[1]) THEN exit_code[cmd.args[1]]
  ELSE IF Len(cmd.args) = 1 THEN PanicCode
  ELSE 1

\* The argument vector of the child's program, empty for a node that is no
\* leaf.
pipe_child_argv(cmd) == IF cmd.kind = "Single" THEN cmd.args ELSE <<>>

\* run_pipe, the loop over the commands from stage i on: pipe (not for the
\* last stage), fork, and in the parent the two closes.
RECURSIVE run_pipe_spawn(_, _, _)
run_pipe_spawn(commands, i, w) ==
  IF i > Len(commands) THEN w
  ELSE LET is_last == i = Len(commands)
           stdin   == IF i > 1 THEN Fd("read", i - 1) ELSE Inherited
           stdout  == IF is_last THEN Inherited ELSE Fd("write", i)
           calls   ==
             (IF is_last THEN <<>>
                ELSE <<Syscall("pipe", i, Fd("read", i), Fd("write", i))>>)
             \o <<Syscall("fork", i, stdin, stdout)>>
             \o (IF i > 1 THEN <<Syscall("close", i, Fd("read", i - 1), NoFd)>> ELSE <<>>)
             \o (IF is_last THEN <<>> ELSE <<Syscall("close", i, NoFd, Fd("write", i))>>)
       IN run_pipe_spawn(commands, i + 1,
            [w EXCEPT !.trace = @ \o calls,
                      !.spawned = Append(@, Child(pipe_child_argv(commands[i]),
                                                  "fork", FALSE))])

\* run_pipe, "Wait for all children": waitpid for every child in spawn
\* order, each overwriting status.  first is the index in w.spawned of the
\* child of stage 1.  The wait status of an exited process is its exit
\* code in the second byte.
RECURSIVE run_pipe_wait(_, _, _, _, _)
run_pipe_wait(commands, i, first, status, w) ==
  IF i > Len(commands)
    THEN Returns(IF status # 0 THEN Failed("Command failed with status", status) ELSE Ok, w)
    ELSE run_pipe_wait(commands, i + 1, first, 256 * pipe_child_exit(commands[i]),
           [w EXCEPT !.trace = Append(@, Syscall("waitpid", i, NoFd, NoFd)),
                     !.spawned[first + i - 1].waited = TRUE])

\* run_pipe
run_pipe(commands, w) ==
  IF Len(commands) < 2 THEN Returns(Err("Pipe requires at least 2 commands"), w)
  ELSE run_pipe_wait(commands, 1, Len(w.spawned) + 1, 0,
                     run_pipe_spawn(commands, 1, w))

\* A parent that forks, waits for the child and returns its status.
run_background_waiting(command, w) ==
  Returns(IF pipe_child_exit(command) = 0
            THEN Ok
            ELSE Failed("Command failed with status", 256 * pipe_child_exit(command)),
          [w EXCEPT !.trace = @ \o <<Syscall("fork", 0, Fd("null", 0), Fd("null", 0)),
                                     Syscall("waitpid", 0, NoFd, NoFd)>>,
                    !.spawned = Append(@, Child(pipe_child_argv(command),
                                                "fork_background", TRUE))])

\* run_background: the parent forks and returns Ok; the child detaches,
\* takes /dev/null for its descriptors and runs the command.
run_background(command, w) ==
  Returns(Ok,
          [w EXCEPT !.trace = Append(@, Syscall("fork", 0, Fd("null", 0), Fd("null", 0))),
                    !.spawned = Append(@, Child(pipe_child_argv(command),
                                                "fork_background", FALSE))])

----------------------------------------------------------------------------
(* builtins.rs and commands/mod.rs: external commands.                     *)

\* The exit code of the child when execvp fails.
NotFoundCode == 127

\* builtins::execute_external: fork, execvp in the child, waitpid in the
\* parent; of the exit codes only 0 and 127 are told apart.
execute_external(command, args, w) ==
  LET code  == IF Found(command) THEN exit_code[command] ELSE NotFoundCode
      after == [w EXCEPT !.trace = @ \o <<Syscall("fork", 0, Inherited, Inherited),
                                         Syscall("waitpid", 0, NoFd, NoFd)>>,
                         !.spawned = Append(@, Child(<<command>> \o args, "fork", TRUE))]
  IN IF code = NotFoundCode
       THEN Returns(Err("command not found"), after)
       ELSE Returns(Ok, after)

\* commands::execute_external_command (commands/mod.rs)
mod_execute_external_command(cmd, args, w) ==
  IF ~Found(cmd) THEN Returns(Err("Command not found"), w)
  ELSE Returns(IF exit_code[cmd] = 0
                 THEN Ok
                 ELSE Failed("Command failed with code", exit_code[cmd]),
               WithChild(w, Child(<<cmd>> \o args, "status", TRUE)))

----------------------------------------------------------------------------
(* commands/symbols.rs: the handlers that differ from b_symbols.rs.        *)

\* commands::symbols::expand_tokens: braces, then wildcards.
symbols_expand_tokens(tokens, entries) ==
  LET wild(t) == expand_wildcard(t, entries)
      token(tok) == FlatMap(wild, expand_braces(tok))
  IN FlatMap(token, tokens)

\* commands::symbols::handle_pipe: two commands and one pipe; both are
\* waited for, and the left one's failure is reported first.
symbols_handle_pipe(left_cmd, right_cmd, w) ==
  LET wait(left, right, both) ==
        IF exit_code[left[1]] # 0
          THEN Returns(Failed("Left command failed with code", exit_code[left[1]]), both)
        ELSE IF exit_code[right[1]] # 0
          THEN Returns(Failed("Right command failed with code", exit_code[right[1]]), both)
        ELSE Returns(Ok, both)
      spawn(expanded_left, expanded_right) ==
        IF expanded_left = <<>> THEN Returns(Panic("index out of bounds"), w)
        ELSE IF ~Found(expanded_left[1]) THEN Returns(Err("First command failed"), w)
        ELSE IF expanded_right = <<>>
          THEN Returns(Panic("index out of bounds"),
                       WithChild(w, Child(expanded_left, "pipe", FALSE)))
        ELSE IF ~Found(expanded_right[1])
          THEN Returns(Err("Second command failed"),
                       WithChild(w, Child(expanded_left, "pipe", FALSE)))
        ELSE wait(expanded_left, expanded_right,
                  WithChild(WithChild(w, Child(expanded_left, "pipe", TRUE)),
                            Child(expanded_right, "pipe", TRUE)))
  IN IF left_cmd = <<>> \/ right_cmd = <<>>
       THEN Returns(Err("Both sides of pipe must contain commands"), w)
       ELSE spawn(symbols_expand_tokens(left_cmd, dir_entries),
                  symbols_expand_tokens(right_cmd, dir_entries))

----------------------------------------------------------------------------
(* The inputs of SpecParse.                                                *)

\* The characters the parser distinguishes, and one ordinary letter.
ParseAlphabet == {"a", SP, ";", "&", "|", ">", "<", "2", SQ, DQ, BS, HASH}

\* Lines longer than MaxLen: the examples of the specification, spelled
\* with one-letter words, and lines that nest the two kinds of quotes.
ParseExamples ==
  { <<"a", ";", " ", "b">>,                                      \* a; b
    <<"a", " ", "&", "&", " ", "b", " ", "|", "|", " ", "c">>,   \* a && b || c
    <<"b", " ", "|", "|", " ", "c">>,                            \* b || c
    <<"a", " ", ">", " ", "f", " ", "&", "&", " ", "b">>,        \* a > f && b
    <<"a", ">", "f", "&", "&", "b">>,                            \* a>f&&b
    <<"a", " ", "|", " ", "b", " ", ";", " ", "c">>,             \* a | b ; c
    <<"a", " ", "\\", ";", " ", "b">>,                           \* a \; b
    <<"a", " ", "\\", "|", " ", "b">>,                           \* a \| b
    <<"a", " ", "#", " ", "b", ";", "c">>,                       \* a # b;c
    <<"a", " ", "b", "#", "c">>,                                 \* a b#c
    <<"\"", "'", "'", ";", "\"">>,                               \* "'';"
    <<"a", " ", "'", ";", "'", " ", "b">>,                       \* a ';' b
    <<"a", " ", "\"", "'", "\"", " ", ";", " ", "b">> }            \* a "'" ; b

ParseLines == SeqsUpTo(ParseAlphabet, MaxLen) \cup ParseExamples

----------------------------------------------------------------------------
(* SpecParse: parse.rs applied to every line of ParseLines.                *)

InitParse ==
  /\ line \in ParseLines
  /\ pc = "input"
  /\ tree = NoTree
  /\ toks = <<>>
  /\ outcome = NoOutcome
  /\ spawned = <<>>
  /\ opened = <<>>
  /\ aliases = Unset
  /\ env_vars = Unset
  /\ cwd = HomeDir
  /\ vim_enabled = FALSE
  /\ trace = <<>>
  /\ lookup = None
  /\ exit_code = <<>>
  /\ sys_env = <<>>
  /\ dir_entries = <<>>
  /\ unopenable = {}

\* parse::parse_syntax(line)
ParseSyntax ==
  /\ pc = "input"
  /\ pc' = "parse_syntax"
  /\ tree' = parse_syntax(line)
  /\ UNCHANGED <<line, toks, outcome, world_vars, environment, lookup>>

\* parse::tokenize(line)
Tokenize ==
  /\ pc = "input"
  /\ pc' = "tokenize"
  /\ toks' = tokenize(line)
  /\ UNCHANGED <<line, tree, outcome, world_vars, environment, lookup>>

NextParse == ParseSyntax \/ Tokenize

SpecParse == InitParse /\ [][NextParse]_vars

----------------------------------------------------------------------------
(* Spec: shell::execute and shell::parse_input applied to every line of    *)
(* ShellLines, in every environment of the bounded set.                    *)

\* The programs that exist: each exits with one of these codes.
Programs == {<<"a">>, <<"b">>}
ExitCodes == {0, 1}

\* The characters the token path distinguishes, and two letters.
ShellAlphabet == {"a", "b", SP, ";", "&", "|", SQ, DQ, BS, "$"}

\* Lines longer than MaxLen.
ShellExamples ==
  { <<"a", "&", "&", "b">>,                          \* a&&b
    <<"a", " ", "&", "&", " ", "b">>,                \* a && b
    <<"a", "|", "|", "b">>,                          \* a||b
    <<"a", " ", "|", "|", " ", "b">>,                \* a || b
    <<"a", " ", ";", " ", "b">>,                     \* a ; b
    <<"a", " ", "|", " ", "b">>,                     \* a | b
    <<"a", " ", "&">>,                               \* a &
    <<"a", " ", "'", "$", "b", "'">>,                \* a '$b'
    <<"a", " ", "'", "$", "{", "b", "}", "'">>,      \* a '${b}'
    <<"a", " ", "\"", "$", "b", "\"">>,              \* a "$b"
    <<"a", " ", "'", "b", ";", "b", "'">>,           \* a 'b;b'
    <<"a", " ", ">", " ", "b">>,                     \* a > b
    <<"a", " ", "<", " ", "b">>,                     \* a < b
    <<"a", " ", ">">>,                               \* a >
    <<"a", " ", "'", "b">>,                          \* a 'b
    <<"a", " ", "\"", "b", " ", "b">>,               \* a "b b
    <<"a", "l", "i", "a", "s">>,                     \* alias
    <<"c", "d">>,                                    \* cd
    <<"h", "e", "l", "p">>,                          \* help
    <<"e", "x", "i", "t">>,                          \* exit
    <<"a", " ", "2", "4">>,                          \* a 24
    <<"a", " ", "2", "0", "2", "4">>,                \* a 2024
    <<"a", " ", "4", "2">> }                         \* a 42

ShellLines == SeqsUpTo(ShellAlphabet, MaxLen) \cup ShellExamples

Init ==
  /\ line \in ShellLines
  /\ pc = "input"
  /\ tree = NoTree
  /\ toks = <<>>
  /\ outcome = NoOutcome
  /\ spawned = <<>>
  /\ opened = <<>>
  /\ aliases = Unset
  /\ env_vars = Unset
  /\ cwd = HomeDir
  /\ vim_enabled = FALSE
  /\ trace = <<>>
  /\ lookup = None
  /\ exit_code \in [Programs -> ExitCodes]
  /\ sys_env \in {<<>>, [n \in {<<"b">>} |-> <<"v">>]}
  /\ dir_entries = <<>>
  /\ unopenable \in (IF line \in ShellExamples THEN {{}, {<<"b">>}} ELSE {{}})

\* shell::execute(line), as the read-execute loop of main calls it
Execute ==
  /\ pc = "input"
  /\ pc' = "execute"
  /\ \E done \in {execute(line, World)} :
       /\ outcome' = done.r
       /\ spawned' = done.w.spawned
       /\ opened' = done.w.opened
       /\ aliases' = done.w.aliases
       /\ env_vars' = done.w.env_vars
       /\ cwd' = done.w.cwd
       /\ vim_enabled' = done.w.vim_enabled
       /\ trace' = done.w.trace
  /\ UNCHANGED <<line, tree, toks, environment, lookup>>

\* shell::parse_input(line), as config::run_startup calls it
ParseInput ==
  /\ pc = "input"
  /\ pc' = "parse_input"
  /\ toks' = parse_input(line)
  /\ UNCHANGED <<line, tree, outcome, world_vars, environment, lookup>>

Next == Execute \/ ParseInput

Spec == Init /\ [][Next]_vars

----------------------------------------------------------------------------
(* SpecExec: the pipeline and background functions applied to every        *)
(* command of a bounded set.                                               *)

\* the longest pipeline that is an input
MaxStages == 3

\* A program name no program has.
Missing == <<"c">>

\* The exit codes of the programs of SpecExec.
ExecExitCodes == {0, 1, 2, 127, 255}

\* The leaf commands: a program, found or not, without arguments.
Leaves == {Single(<<p>>) : p \in Programs \cup {Missing}}

\* Every way to put the stages, in order, under Pipe nodes.
RECURSIVE PipeTrees(_)
PipeTrees(stages) ==
  IF Len(stages) = 1 THEN {stages[1]}
  ELSE UNION {{BinaryOp(l, "Pipe", r) :
                 l \in PipeTrees(SubSeq(stages, 1, k)),
                 r \in PipeTrees(SubSeq(stages, k + 1, Len(stages)))} :
              k \in 1..(Len(stages) - 1)}

\* The commands handed to the execution functions: a leaf or a pipe chain.
ExecCommands == UNION {PipeTrees(stages) : stages \in SeqsUpTo(Leaves, MaxStages) \ {<<>>}}

\* The stages of a command, left to right.
RECURSIVE StagesOf(_)
StagesOf(t) ==
  IF t.kind = "Single" THEN <<t>> ELSE StagesOf(t.left) \o StagesOf(t.right)

\* The tokens of the stages after the first, as handle_symbols leaves them
\* to the right of the first | of the line.
RECURSIVE RightOfFirstPipe(_)
RightOfFirstPipe(stages) ==
  IF Len(stages) = 1 THEN stages[1].args
  ELSE stages[1].args \o << <<"|">> >> \o RightOfFirstPipe(Tail(stages))

InitExec ==
  /\ line = <<>>
  /\ pc = "input"
  /\ tree \in ExecCommands
  /\ toks = <<>>
  /\ outcome = NoOutcome
  /\ spawned = <<>>
  /\ opened = <<>>
  /\ aliases = Unset
  /\ env_vars = Unset
  /\ cwd = HomeDir
  /\ vim_enabled = FALSE
  /\ trace = <<>>
  /\ lookup = None
  /\ exit_code \in [Programs -> ExecExitCodes]
  /\ sys_env = <<>>
  /\ dir_entries = <<>>
  /\ unopenable = {}

\* The function returned done: its result and the state it left.
Returned(done) ==
  /\ outcome' = done.r
  /\ spawned' = done.w.spawned
  /\ opened' = done.w.opened
  /\ aliases' = done.w.aliases
  /\ env_vars' = done.w.env_vars
  /\ cwd' = done.w.cwd
  /\ vim_enabled' = done.w.vim_enabled
  /\ trace' = done.w.trace

\* process_exec::run_pipe(flatten_pipes(vec![tree]))
RunPipe ==
  /\ pc = "input"
  /\ pc' = "run_pipe"
  /\ \E done \in {run_pipe(flatten_pipes(<<tree>>), World)} : Returned(done)
  /\ UNCHANGED <<line, tree, toks, environment, lookup>>

\* b_symbols::handle_pipe(left of the first |, right of it)
HandlePipe ==
  /\ pc = "input"
  /\ tree.kind = "BinaryOp"
  /\ pc' = "handle_pipe"
  /\ \E stages \in {StagesOf(tree)} :
       \E done \in {handle_pipe(stages[1].args, RightOfFirstPipe(Tail(stages)), World)} :
         Returned(done)
  /\ UNCHANGED <<line, tree, toks, environment, lookup>>

\* commands::symbols::handle_pipe(left of the first |, right of it)
SymbolsHandlePipe ==
  /\ pc = "input"
  /\ tree.kind = "BinaryOp"
  /\ pc' = "symbols_handle_pipe"
  /\ \E stages \in {StagesOf(tree)} :
       \E done \in {symbols_handle_pipe(stages[1].args,
                                        RightOfFirstPipe(Tail(stages)), World)} :
         Returned(done)
  /\ UNCHANGED <<line, tree, toks, environment, lookup>>

\* process_exec::run_background(tree)
RunBackground ==
  /\ pc = "input"
  /\ pc' = "run_background"
  /\ \E done \in {run_background(tree, World)} : Returned(done)
  /\ UNCHANGED <<line, tree, toks, environment, lookup>>

\* b_symbols::handle_background(the tokens of a leaf)
HandleBackground ==
  /\ pc = "input"
  /\ tree.kind = "Single"
  /\ pc' = "handle_background"
  /\ \E done \in {handle_background(tree.args, World)} : Returned(done)
  /\ UNCHANGED <<line, tree, toks, environment, lookup>>

\* builtins::execute_external(program of the leaf, its arguments)
ExecuteExternal ==
  /\ pc = "input"
  /\ tree.kind = "Single"
  /\ pc' = "execute_external"
  /\ \E done \in {execute_external(tree.args[1], Tail(tree.args), World)} : Returned(done)
  /\ UNCHANGED <<line, tree, toks, environment, lookup>>

\* b_core::execute_external_command(program of the leaf, its arguments)
ExecuteExternalCommand ==
  /\ pc = "input"
  /\ tree.kind = "Single"
  /\ pc' = "execute_external_command"
  /\ \E done \in {execute_external_command(tree.args[1], Tail(tree.args), World)} :
       Returned(done)
  /\ UNCHANGED <<line, tree, toks, environment, lookup>>

\* commands::execute_external_command(program of the leaf, its arguments)
ModExecuteExternalCommand ==
  /\ pc = "input"
  /\ tree.kind = "Single"
  /\ pc' = "mod_execute_external_command"
  /\ \E done \in {mod_execute_external_command(tree.args[1], Tail(tree.args), World)} :
       Returned(done)
  /\ UNCHANGED <<line, tree, toks, environment, lookup>>

NextExec ==
  \/ RunPipe \/ HandlePipe \/ SymbolsHandlePipe \/ RunBackground \/ HandleBackground
  \/ ExecuteExternal \/ ExecuteExternalCommand \/ ModExecuteExternalCommand

SpecExec == InitExec /\ [][NextExec]_vars

----------------------------------------------------------------------------
(* SpecEnv: export, then the lookup of a variable.                         *)

\* the number of export commands in a run
MaxExports == 2

\* The variable names and values of SpecEnv.
EnvNames == {<<"b">>, <<"n">>}
EnvValues == {<<"v">>, <<"w">>}

\* The arguments NAME=VALUE given to export.
ExportArgs == {name \o <<"=">> \o val : name \in EnvNames, val \in EnvValues}

\* The texts handed to expand for a name: $NAME and ${NAME}.
Dollar(name) == <<"$">> \o name
DollarBraced(name) == <<"$", "{">> \o name \o <<"}">>

\* toks is the list of the arguments exported so far; line is the name
\* looked up, or the text expanded.
InitEnv ==
  /\ line = <<>>
  /\ pc = "input"
  /\ tree = NoTree
  /\ toks = <<>>
  /\ outcome = NoOutcome
  /\ spawned = <<>>
  /\ opened = <<>>
  /\ aliases = Unset
  /\ env_vars = Unset
  /\ cwd = HomeDir
  /\ vim_enabled = FALSE
  /\ trace = <<>>
  /\ lookup = None
  /\ exit_code = <<>>
  /\ sys_env \in {<<>>, [n \in {<<"b">>} |-> <<"v">>], [n \in {<<"b">>} |-> <<"w">>]}
  /\ dir_entries = <<>>
  /\ unopenable = {}

\* b_core::handle_export_cmd(&[NAME=VALUE])
Export ==
  /\ pc \in {"input", "export"}
  /\ Len(toks) < MaxExports
  /\ pc' = "export"
  /\ \E arg \in ExportArgs :
       /\ toks' = Append(toks, arg)
       /\ \E done \in {handle_export_cmd(<<arg>>, World)} : Returned(done)
  /\ UNCHANGED <<line, tree, environment, lookup>>

\* b_core::get_env_var(name)
GetEnvVar ==
  /\ pc = "export"
  /\ pc' = "get_env_var"
  /\ \E name \in EnvNames :
       /\ line' = name
       /\ lookup' = get_env_var(name, sys_env, env_vars)
  /\ UNCHANGED <<tree, toks, outcome, world_vars, environment>>

\* utils::expand("$NAME") and utils::expand("${NAME}")
Expand ==
  /\ pc = "export"
  /\ pc' = "expand"
  /\ \E name \in EnvNames :
       \E text \in {Dollar(name), DollarBraced(name)} :
         /\ line' = text
         /\ lookup' = expand(text, sys_env, env_vars)
  /\ UNCHANGED <<tree, toks, outcome, world_vars, environment>>

\* The arguments of one `export`: one or two, of the form NAME=VALUE or a
\* bare name.
ExportArgLists ==
  LET one == ExportArgs \cup EnvNames
  IN {<<a>> : a \in one} \cup {<<a, b>> : a \in one, b \in one}

\* b_core::handle_export_cmd(args) with any arguments.
ExportArguments ==
  /\ pc \in {"input", "export"}
  /\ pc' = "export_arguments"
  /\ \E args \in ExportArgLists :
       /\ lookup' = [args |-> args, before |-> env_vars]
       /\ \E done \in {handle_export_cmd(args, World)} : Returned(done)
  /\ UNCHANGED <<line, tree, toks, environment>>

\* builtins::handle_export_cmd(args) with any arguments.
BuiltinsExport ==
  /\ pc \in {"input", "export"}
  /\ pc' = "builtins_export"
  /\ \E args \in ExportArgLists :
       /\ lookup' = [args |-> args, before |-> env_vars]
       /\ \E done \in {builtins_handle_export_cmd(args, World, sys_env)} :
            /\ Returned(done)
            /\ sys_env' = done.env
  /\ UNCHANGED <<line, tree, toks, exit_code, dir_entries, unopenable>>

NextEnv == Export \/ GetEnvVar \/ Expand \/ ExportArguments \/ BuiltinsExport

SpecEnv == InitEnv /\ [][NextEnv]_vars

----------------------------------------------------------------------------
(* expand_aliases, one loop iteration per step.                            *)

\* Alias names and the texts they stand for: chains, a cycle between two
\* names, a text that begins with its own name, a text with a parameter.
AliasNames == {<<"a">>, <<"b">>}
AliasTexts == {<<"a">>, <<"b">>, <<"a", " ", "a">>, <<"c">>, <<"c", " ", "$", "1">>}

\* The registry: never initialised, or any map that `alias` has filled.
AliasRegistries ==
  {Unset} \cup UNION {[names -> AliasTexts] : names \in SUBSET AliasNames \ {{}}}

\* input: &str
AliasLines ==
  {<<>>, <<"a">>, <<"b">>, <<"c">>, <<"a", " ", "x">>, <<" ", "a">>, <<"b", " ", "a">>}

InitAlias ==
  /\ line \in AliasLines
  /\ pc = "input"
  /\ tree = NoTree
  /\ toks = <<>>
  /\ outcome = NoOutcome
  /\ spawned = <<>>
  /\ opened = <<>>
  /\ aliases \in AliasRegistries
  /\ env_vars = Unset
  /\ cwd = HomeDir
  /\ vim_enabled = FALSE
  /\ trace = <<>>
  /\ lookup = None
  /\ exit_code = <<>>
  /\ sys_env = <<>>
  /\ dir_entries = <<>>
  /\ unopenable = {}

\* b_core::expand_aliases is entered: result = input, depth = 0.
ExpandAliasesEnter ==
  /\ pc = "input"
  /\ pc' = "expand_aliases"
  /\ lookup' = [result |-> line, depth |-> 0, warned |-> FALSE]
  /\ UNCHANGED <<line, tree, toks, outcome, world_vars, environment>>

\* b_core::expand_aliases, one iteration that finds an alias.
ExpandAliasesSubstitute ==
  /\ pc = "expand_aliases"
  /\ expand_aliases_continues(lookup.depth)
  /\ lookup_alias(alias_first_part(lookup.result), aliases) # None
  /\ lookup' = [result |-> expand_aliases_new_cmd(lookup.result, aliases),
                depth  |-> lookup.depth + 1,
                warned |-> FALSE]
  /\ UNCHANGED <<line, pc, tree, toks, outcome, world_vars, environment>>

\* b_core::expand_aliases leaves the loop, prints the warning and returns.
ExpandAliasesReturn ==
  /\ pc = "expand_aliases"
  /\ \/ ~expand_aliases_continues(lookup.depth)
     \/ lookup_alias(alias_first_part(lookup.result), aliases) = None
  /\ pc' = "returned"
  /\ lookup' = [lookup EXCEPT !.warned = expand_aliases_warns(lookup.depth)]
  /\ UNCHANGED <<line, tree, toks, outcome, world_vars, environment>>

\* builtins::expand_aliases(input)
BuiltinsExpandAliases ==
  /\ pc = "input"
  /\ pc' = "builtins_returned"
  /\ \E done \in {builtins_expand_aliases(line, aliases)} :
       lookup' = [result |-> done.result, depth |-> done.depth, warned |-> FALSE]
  /\ UNCHANGED <<line, tree, toks, outcome, world_vars, environment>>

NextAlias ==
  \/ ExpandAliasesEnter
  \/ ExpandAliasesSubstitute
  \/ ExpandAliasesReturn
  \/ BuiltinsExpandAliases

\* The call is not suspended: a step that can be taken is taken.
SpecAlias == InitAlias /\ [][NextAlias]_vars /\ WF_vars(NextAlias)

----------------------------------------------------------------------------
(* process_exec.rs and builtins.rs, call by call: the descriptors and the  *)
(* signal dispositions of the shell process and of every process it forks. *)

\* The byte that CString::new rejects.
NUL == "NUL"

\* A process made by fork.  inherited: the pipe ends it had at the fork;
\* open: those it still has when it stops running the shell's code, stdin
\* and stdout apart; sigint, sigquit, sigttin, sigttou: the dispositions at
\* that point; ends: how it leaves the shell's code ("exec", "exit",
\* "panic", or "return" into the caller of the function that forked).
Forked(stage, inherited, stdin, stdout, open, sigs, setsid, ends) ==
  [stage |-> stage, inherited |-> inherited, stdin |-> stdin, stdout |-> stdout,
   open |-> open, sigint |-> sigs[1], sigquit |-> sigs[2], sigttin |-> sigs[3],
   sigttou |-> sigs[4], setsid |-> setsid, ends |-> ends, waited |-> FALSE]

\* CString::new(s) is an error.
HasNul(args) == \E k \in 1..Len(args) : HasChar(args[k], NUL)

\* run_pipe, the child of stage i: dup2 and close of the previous read end,
\* dup2 of the write end and close of both ends of the stage's own pipe,
\* no call of signal, then CString::new(..)?, execvp, the message with
\* args[0] of the arguments, exit(1).
run_pipe_child(cmd, i, is_last, prev_read, held, shell_sig) ==
  LET closed == (IF prev_read # 0 THEN {Fd("read", prev_read)} ELSE {})
                \cup (IF is_last THEN {} ELSE {Fd("read", i), Fd("write", i)})
      ends   == IF cmd.kind # "Single" THEN "exit"
                ELSE IF cmd.args = <<>> THEN "panic"
                ELSE IF HasNul(cmd.args) THEN "return"
                ELSE IF Found(cmd.args[1]) THEN "exec"
                ELSE IF Len(cmd.args) = 1 THEN "panic"
                ELSE "exit"
  IN Forked(i, held,
            IF prev_read # 0 THEN Fd("read", prev_read) ELSE Inherited,
            IF is_last THEN Inherited ELSE Fd("write", i),
            held \ closed,
            <<shell_sig, shell_sig, "inherited", "inherited">>, FALSE, ends)

\* A parent that closes the previous read end and keeps the write end.
run_pipe_parent_keeps_write(piped, prev_read, i, is_last) ==
  piped \ (IF prev_read # 0 THEN {Fd("read", prev_read)} ELSE {})

\* run_pipe, the parent after fork: close(prev_read), close(fds[1]); the
\* pipe ends it is left with.
run_pipe_parent(piped, prev_read, i, is_last) ==
  (piped \ (IF prev_read # 0 THEN {Fd("read", prev_read)} ELSE {}))
  \ (IF is_last THEN {} ELSE {Fd("write", i)})

\* run_pipe, one turn of the loop for stage i; run holds prev_read (0 for
\* None), the pipe ends the shell has (fds) and the children.  fails names
\* the call that fails, if any: pipe (not for the last stage) or fork.
run_pipe_stage(run, commands, fails) ==
  LET i       == run.i
      is_last == i = Len(commands)
      piped   == IF is_last THEN run.fds
                 ELSE run.fds \cup {Fd("read", i), Fd("write", i)}
      child   == run_pipe_child(commands[i], i, is_last, run.prev_read, piped,
                                run.shell_sig)
      kept    == run_pipe_parent(piped, run.prev_read, i, is_last)
  IN IF ~is_last /\ fails = "pipe"
       THEN [r |-> Err("pipe failed"), run |-> run]
     ELSE IF fails = "fork"
       THEN [r |-> Err("fork failed"), run |-> [run EXCEPT !.fds = piped]]
     ELSE [r   |-> NoOutcome,
           run |-> [run EXCEPT !.i = i + 1,
                               !.fds = kept,
                               !.prev_read = IF is_last THEN @ ELSE i,
                               !.children = Append(@, child)]]

\* The wait status of a child that has ended: the exit code in the second
\* byte.  A child that returned into the shell's code ends with whatever
\* that code makes of it.
ForkedStatuses(child, cmd) ==
  CASE child.ends = "exec"   -> {256 * exit_code[cmd.args[1]]}
    [] child.ends = "exit"   -> {256}
    [] child.ends = "panic"  -> {256 * PanicCode}
    [] OTHER                 -> {0, 256}

\* run_background, the child: setsid, the four calls of signal, /dev/null
\* opened (`?`) and made stdin, stdout and stderr, run(command), exit(0).
run_background_child(command, held, null_fails) ==
  Forked(0, held,
         IF null_fails THEN Inherited ELSE Fd("null", 0),
         IF null_fails THEN Inherited ELSE Fd("null", 0),
         held, <<"SIG_DFL", "SIG_DFL", "SIG_IGN", "SIG_IGN">>, TRUE,
         IF null_fails THEN "return" ELSE "exit")

\* builtins::execute_external, the child: SIGINT and SIGQUIT made default,
\* execvp, exit(127).
execute_external_child(command, args, held, shell_sig) ==
  Forked(0, held, Inherited, Inherited, held,
         <<"SIG_DFL", "SIG_DFL", "inherited", "inherited">>, FALSE,
         IF Found(command) THEN "exec" ELSE "exit")

\* The commands of one stage: programs that exist, with and without an
\* argument, a program that does not exist, an argument CString::new
\* rejects, and the command without words.
ForkLeaves ==
  { Single(<<<<"a">>>>), Single(<<<<"b">>, <<"x">>>>), Single(<<Missing>>),
    Single(<<Missing, <<"x">>>>), Single(<<<<"a">>, <<"x", NUL>>>>), Single(<<>>) }

\* A command, a pipe of two and a pipe chain of three.
ForkCommands ==
  ForkLeaves
  \cup {BinaryOp(l, "Pipe", r) : l \in ForkLeaves, r \in ForkLeaves}
  \cup {BinaryOp(BinaryOp(l, "Pipe", m), "Pipe", r) :
          l \in {Single(<<<<"a">>>>), Single(<<<<"b">>, <<"x">>>>)},
          m \in ForkLeaves, r \in ForkLeaves}

\* The disposition of SIGINT and SIGQUIT in the shell process.
ShellDispositions == {"SIG_DFL", "SIG_IGN"}

\* The shell before the call: no pipe end open, no child.
NoRun(shell_sig) ==
  [shell_sig |-> shell_sig, i |-> 1, prev_read |-> 0, fds |-> {}, children |-> <<>>,
   status |-> 0]

InitFork ==
  /\ line = <<>>
  /\ pc = "input"
  /\ tree \in ForkCommands
  /\ toks = <<>>
  /\ outcome = NoOutcome
  /\ spawned = <<>>
  /\ opened = <<>>
  /\ aliases = Unset
  /\ env_vars = Unset
  /\ cwd = HomeDir
  /\ vim_enabled = FALSE
  /\ trace = <<>>
  /\ lookup \in {NoRun(sig) : sig \in ShellDispositions}
  /\ exit_code \in {[p \in Programs |-> IF p = <<"a">> THEN 0 ELSE c] : c \in ExitCodes}
  /\ sys_env = <<>>
  /\ dir_entries = <<>>
  /\ unopenable = {}

\* run_pipe is called with the flattened stages of a pipe.
RunPipeEnter ==
  /\ pc = "input"
  /\ tree.kind = "BinaryOp"
  /\ pc' = "run_pipe"
  /\ UNCHANGED <<line, tree, toks, outcome, world_vars, environment, lookup>>

\* run_pipe: one turn of the loop; the error of pipe or fork is returned.
RunPipeStage ==
  /\ pc = "run_pipe"
  /\ lookup.i <= Len(flatten_pipes(<<tree>>))
  /\ \E fails \in {"no", "pipe", "fork"} :
       \E done \in {run_pipe_stage(lookup, flatten_pipes(<<tree>>), fails)} :
         /\ lookup' = done.run
         /\ outcome' = done.r
         /\ pc' = IF done.r = NoOutcome THEN "run_pipe" ELSE "returned"
  /\ UNCHANGED <<line, tree, toks, world_vars, environment>>

\* run_pipe, "Wait for all children": waitpid for the next child.
RunPipeWait ==
  /\ pc \in {"run_pipe", "run_pipe_wait"}
  /\ lookup.i > Len(flatten_pipes(<<tree>>))
  /\ \E k \in 1..Len(lookup.children) :
       /\ ~lookup.children[k].waited
       /\ \A j \in 1..(k - 1) : lookup.children[j].waited
       /\ \E status \in ForkedStatuses(lookup.children[k], flatten_pipes(<<tree>>)[k]) :
            lookup' = [lookup EXCEPT !.children[k].waited = TRUE, !.status = status]
  /\ pc' = "run_pipe_wait"
  /\ UNCHANGED <<line, tree, toks, outcome, world_vars, environment>>

\* run_pipe returns the status of the last wait.
RunPipeReturn ==
  /\ pc = "run_pipe_wait"
  /\ \A k \in 1..Len(lookup.children) : lookup.children[k].waited
  /\ pc' = "returned"
  /\ outcome' = IF lookup.status # 0
                  THEN Failed("Command failed with status", lookup.status) ELSE Ok
  /\ UNCHANGED <<line, tree, toks, world_vars, environment, lookup>>

\* run_background(command): fork, and the child's calls.
ForkBackground ==
  /\ pc = "input"
  /\ pc' = "run_background"
  /\ \E fork_fails \in BOOLEAN, null_fails \in BOOLEAN :
       IF fork_fails
         THEN /\ outcome' = Err("fork failed")
              /\ UNCHANGED lookup
         ELSE /\ outcome' = Ok
              /\ lookup' = [lookup EXCEPT !.children =
                              <<run_background_child(tree, lookup.fds, null_fails)>>]
  /\ UNCHANGED <<line, tree, toks, world_vars, environment>>

\* builtins::execute_external(command, args): fork, the child's calls,
\* waitpid.
ForkExternal ==
  /\ pc = "input"
  /\ tree.kind = "Single"
  /\ tree.args # <<>>
  /\ pc' = "execute_external"
  /\ IF HasNul(tree.args)
       THEN /\ outcome' = Err("Invalid argument")
            /\ UNCHANGED lookup
       ELSE \E fork_fails \in BOOLEAN :
              IF fork_fails
                THEN /\ outcome' = Err("fork failed")
                     /\ UNCHANGED lookup
                ELSE /\ outcome' = execute_external(tree.args[1], Tail(tree.args), World).r
                     /\ lookup' = [lookup EXCEPT !.children =
                          <<[execute_external_child(tree.args[1], Tail(tree.args),
                                                    lookup.fds, lookup.shell_sig)
                               EXCEPT !.waited = TRUE]>>]
  /\ UNCHANGED <<line, tree, toks, world_vars, environment>>

NextFork ==
  \/ RunPipeEnter
  \/ RunPipeStage
  \/ RunPipeWait
  \/ RunPipeReturn
  \/ ForkBackground
  \/ ForkExternal

SpecFork == InitFork /\ [][NextFork]_vars

----------------------------------------------------------------------------
(* matches_pattern on every pattern and name of bounded length.            *)

MaxPattern == 3
MaxName == 4

\* pattern: &str and name: &str
Patterns == SeqsUpTo({"a", "b", "*"}, MaxPattern)
Names == SeqsUpTo({"a", "b"}, MaxName)

InitMatch ==
  /\ line \in Patterns
  /\ pc = "input"
  /\ tree = NoTree
  /\ toks \in {<<name>> : name \in Names}
  /\ outcome = NoOutcome
  /\ spawned = <<>>
  /\ opened = <<>>
  /\ aliases = Unset
  /\ env_vars = Unset
  /\ cwd = HomeDir
  /\ vim_enabled = FALSE
  /\ trace = <<>>
  /\ lookup = FALSE
  /\ exit_code = <<>>
  /\ sys_env = <<>>
  /\ dir_entries = <<>>
  /\ unopenable = {}

\* matches_pattern(pattern, name)
MatchesPattern ==
  /\ pc = "input"
  /\ pc' = "matches_pattern"
  /\ lookup' = matches_pattern(line, toks[1])
  /\ UNCHANGED <<line, tree, toks, outcome, world_vars, environment>>

NextMatch == MatchesPattern

SpecMatch == InitMatch /\ [][NextMatch]_vars

----------------------------------------------------------------------------
(* The expansion of one token: braces and wildcards.                       *)

\* The token: wildcards with and without a directory, brace sets side by
\* side and nested, an empty alternative, a '}' before the '{', a tilde,
\* and tokens without any expansion character: letters only, with a
\* backslash, in quotes, with an attached operator, a quote alone.
ExpandTokens ==
  { <<"*">>, <<"a", "*">>, <<"d", "/", "*">>, <<"d", "/", "a", "*">>, <<"b">>,
    <<"~", "/", "a">>, <<"$", "b">>,
    <<"x", "{", "b", ",", "c", "}">>,
    <<"{", "a", ",", "b", "}", "{", "c", ",", "d", "}">>,
    <<"a", "{", "b", ",", "{", "c", ",", "d", "}", "}">>,
    <<"a", "{", ",", "b", "}">>,
    <<"}", "x", "{">>,
    <<"a", "b">>, <<"a", ",", "b">>, <<"a", "}">>, <<"a", "/", "b">>, <<".", "a">>,
    <<"a", "=", "b">>,
    <<"a", BS, "b">>, <<SQ, "a", SQ>>, <<"a", "|", "b">>, <<DQ>> }

\* The entries of the directory that is read.
Listings == { <<>>, << <<"a">> >>, << <<"a", "b">>, <<"c">> >>, << <<".", "a">> >> }

\* The directories that cannot be read: none, or the one the token names
\* (as b_symbols and as parse.rs spell it).
UnreadableDirs == { {}, {<<".">>, <<"d">>, <<"d", "/">>} }

InitTokens ==
  /\ line \in ExpandTokens
  /\ pc = "input"
  /\ tree = NoTree
  /\ toks = <<>>
  /\ outcome = NoOutcome
  /\ spawned = <<>>
  /\ opened = <<>>
  /\ aliases = Unset
  /\ env_vars = Unset
  /\ cwd = HomeDir
  /\ vim_enabled = FALSE
  /\ trace = <<>>
  /\ lookup = None
  /\ exit_code = <<>>
  /\ sys_env \in {<<>>, [n \in {HOME} |-> HomeDir]}
  /\ dir_entries \in Listings
  /\ unopenable \in UnreadableDirs

\* b_symbols::expand_wildcard(pattern)
ExpandWildcard ==
  /\ pc = "input"
  /\ pc' = "expand_wildcard"
  /\ toks' = expand_wildcard_in(line, unopenable, dir_entries)
  /\ outcome' = Ok
  /\ UNCHANGED <<line, tree, world_vars, environment, lookup>>

\* b_symbols::expand_braces(input)
ExpandBraces ==
  /\ pc = "input"
  /\ pc' = "expand_braces"
  /\ toks' = expand_braces(line)
  /\ outcome' = Ok
  /\ UNCHANGED <<line, tree, world_vars, environment, lookup>>

\* parse::process_tokens(ParsedCommand::Single(vec![token]))
ProcessTokens ==
  /\ pc = "input"
  /\ pc' = "process_tokens"
  /\ \E done \in {process_tokens(<<line>>, sys_env, unopenable, dir_entries)} :
       /\ toks' = done.val
       /\ outcome' = IF done.kind = "Panic"
                       THEN Panic("slice index starts after its end") ELSE Ok
  /\ UNCHANGED <<line, tree, world_vars, environment, lookup>>

\* The outcome of an expansion that returns [kind, msg, val].
Expanded(done) ==
  CASE done.kind = "Ok"    -> Ok
    [] done.kind = "Panic" -> Panic(done.msg)
    [] OTHER               -> Err(done.msg)

\* utils::expand(token)
UtilsExpand ==
  /\ pc = "input"
  /\ pc' = "utils_expand"
  /\ \E done \in {expand(line, sys_env, env_vars)} :
       /\ toks' = IF done.kind = "Ok" THEN <<done.val>> ELSE <<>>
       /\ outcome' = Expanded(done)
  /\ UNCHANGED <<line, tree, world_vars, environment, lookup>>

\* shell::expand_tokens(&[token])
ShellExpandTokens ==
  /\ pc = "input"
  /\ pc' = "shell_expand_tokens"
  /\ \E done \in {shell_expand_tokens(<<line>>, sys_env, env_vars)} :
       /\ toks' = done.val
       /\ outcome' = Expanded(done)
  /\ UNCHANGED <<line, tree, world_vars, environment, lookup>>

\* b_symbols::expand_tokens(&[token]), every directory readable
BSymbolsExpandTokens ==
  /\ pc = "input"
  /\ unopenable = {}
  /\ pc' = "b_symbols_expand_tokens"
  /\ toks' = b_symbols_expand_tokens(<<line>>, dir_entries)
  /\ outcome' = Ok
  /\ UNCHANGED <<line, tree, world_vars, environment, lookup>>

NextTokens ==
  \/ ExpandWildcard
  \/ ExpandBraces
  \/ ProcessTokens
  \/ UtilsExpand
  \/ ShellExpandTokens
  \/ BSymbolsExpandTokens

SpecTokens == InitTokens /\ [][NextTokens]_vars

----------------------------------------------------------------------------
(* Reference notions used to state the claims.                             *)

\* The characters operators are made of (the digit of 2> aside).
OpChars == {";", "&", "|", ">", "<"}

\* Quoting as the specification describes it: the state before position i.
\* q is "" outside quotes, else the kind of the open region; esc says that
\* the character at i is escaped by an unescaped backslash right before it.
\* A quote of the other kind inside a region is an ordinary character.
RECURSIVE QuoteState(_, _)
QuoteState(s, i) ==
  IF i <= 1 THEN [q |-> "", esc |-> FALSE]
  ELSE LET p == QuoteState(s, i - 1)
           c == s[i - 1]
       IN IF p.esc THEN [q |-> p.q, esc |-> FALSE]
          ELSE IF c = BS THEN [q |-> p.q, esc |-> TRUE]
          ELSE IF c \in {SQ, DQ} THEN
            IF p.q = "" THEN [q |-> c, esc |-> FALSE]
            ELSE IF p.q = c THEN [q |-> "", esc |-> FALSE]
            ELSE p
          ELSE p

\* Position i of s lies inside a quoted region (it is not the quote that
\* opens or closes the region).
InsideQuotes(s, i) ==
  /\ QuoteState(s, i).q # ""
  /\ QuoteState(s, i + 1).q = QuoteState(s, i).q

\* The character at i is escaped by a backslash.
Escaped(s, i) == QuoteState(s, i).esc

\* Every quote opened in s is closed, and s does not end in a lone backslash.
Balanced(s) ==
  LET e == QuoteState(s, Len(s) + 1) IN e.q = "" /\ ~e.esc

\* The quote state of the operator scan before position i: any quote
\* character closes a region of its own kind and otherwise opens one.
RECURSIVE ScanQuote(_, _)
ScanQuote(s, i) ==
  IF i <= 1 THEN ""
  ELSE LET q == ScanQuote(s, i - 1)
           c == s[i - 1]
       IN IF c \in {SQ, DQ} THEN (IF q = c THEN "" ELSE c) ELSE q

\* The places where the operator string op occurs in s outside the regions
\* the scan tracks.
ScanOccurrences(s, op) ==
  {i \in 1..Len(s) : StartsWith(s, i, op) /\ ScanQuote(s, i) = ""}

----------------------------------------------------------------------------
(* C1: the split operator is chosen by table order.                        *)

\* The tree the claim describes for s: the first table entry with an
\* occurrence outside the scan's quoted regions, split at its leftmost
\* occurrence; Single(tokenize(s)) when no entry occurs.
C1_ClaimedTree(s) ==
  LET occ(k) == ScanOccurrences(s, OPERATORS[k].str)
      having == {k \in 1..Len(OPERATORS) : occ(k) # {}}
  IN IF having = {} THEN Single(tokenize(s))
     ELSE LET k == SetMin(having)
              i == SetMin(occ(k))
          IN BinaryOp(parse_syntax(SubSeq(s, 1, i - 1)),
                      OPERATORS[k].op,
                      parse_syntax(Suffix(s, i + Len(OPERATORS[k].str))))

----------------------------------------------------------------------------
(* C2: a redirection before && binds to the command on its left.           *)

C2_Words == {<<"a">>, <<"b">>, <<"f">>}

\* The line "L > F && R", with or without the blanks.
C2_Line(L, F, R, pad) ==
  L \o pad \o <<">">> \o pad \o F \o pad \o <<"&", "&">> \o pad \o R

\* C2: for every line L > F && R of simple words the tree is
\* BinaryOp(BinaryOp(Single(L), Redirect(Stdout), Single(F)), And, Single(R)):
\* the And node is the root.
C2_RedirectBindsLeft ==
  \A L \in C2_Words, F \in C2_Words, R \in C2_Words, pad \in {<<>>, <<SP>>} :
    (pc = "parse_syntax" /\ line = C2_Line(L, F, R, pad)) =>
      tree = BinaryOp(BinaryOp(Single(<<L>>), "Redirect(Stdout)", Single(<<F>>)),
                      "And", Single(<<R>>))

----------------------------------------------------------------------------
(* C4: a character after a backslash is a literal for the operator scan.   *)

\* C4: when every operator and quote character of the line is escaped, the
\* line is not split (the tree is a leaf); and when every quote character
\* is escaped, an unescaped operator character still splits the line (the
\* escaped quote opened no quoted region).
C4_EscapedIsLiteral ==
  pc = "parse_syntax" =>
    LET special == {i \in 1..Len(line) : line[i] \in OpChars \cup {SQ, DQ}}
        quotes  == {i \in 1..Len(line) : line[i] \in {SQ, DQ}}
        ops     == {i \in 1..Len(line) : line[i] \in OpChars}
    IN /\ (special # {} /\ \A i \in special : Escaped(line, i))
            => tree.kind = "Single"
       /\ (quotes # {} /\ (\A i \in quotes : Escaped(line, i))
             /\ (\E i \in ops : ~Escaped(line, i)))
            => tree.kind = "BinaryOp"

----------------------------------------------------------------------------
(* C6: an unquoted # starts a comment.                                     *)

\* C6: for every prefix P with balanced quotes, parse(P # T) = parse(P).
C6_CommentDropsRest ==
  pc = "parse_syntax" =>
    \A i \in 1..Len(line) :
      (line[i] = HASH /\ Balanced(SubSeq(line, 1, i - 1)))
        => tree = parse_syntax(SubSeq(line, 1, i - 1))

----------------------------------------------------------------------------
(* C3: an operator inside quotes is argument text.                         *)

\* Every operator character of s lies inside a quoted region, there is one,
\* and the quotes of s are balanced.
OperatorsAllQuoted(s) ==
  LET ops == {i \in 1..Len(s) : s[i] \in OpChars}
  IN ops # {} /\ Balanced(s) /\ \A i \in ops : InsideQuotes(s, i)

\* C3: when every operator string of the line lies inside quotes, no path
\* splits the line or makes an operator token: parse_syntax returns a leaf,
\* parse_input returns no symbol token, and shell::execute runs at most one
\* command, as a plain command (no pipe, redirection, background or
\* sequence handler started it).
C3_QuotedOperatorIsText ==
  OperatorsAllQuoted(line) =>
    /\ pc = "parse_syntax" => tree.kind = "Single"
    /\ pc = "parse_input" => \A k \in 1..Len(toks) : SymbolType(toks[k]) = None
    /\ pc = "execute" =>
         /\ Len(spawned) <= 1
         /\ \A k \in 1..Len(spawned) : spawned[k].how = "status"

----------------------------------------------------------------------------
(* C5: an unterminated quote is a parse error.                             *)

\* A quote of s is opened and never closed.
Unterminated(s) == QuoteState(s, Len(s) + 1).q # ""

\* C5: for every line with an unterminated quote, shell::execute returns an
\* error and no command is executed.
C5_UnterminatedQuoteIsError ==
  (pc = "execute" /\ Unterminated(line)) =>
    /\ outcome.kind = "Err"
    /\ spawned = <<>>

----------------------------------------------------------------------------
(* C7: the contents of single quotes reach the command unchanged.          *)

\* The texts put in single quotes: no quote, backslash or operator
\* character (operators in quotes are the subject of C3).
C7_Texts ==
  {x \in SeqsUpTo({"a", "b", "$", "{", "}"}, 4) :
     /\ x # <<>>
     /\ x[1] = "$"}

\* C7: for every line P 'X' (P a program, X a text), shell::execute runs P
\* once with the one argument X, character for character.
C7_SingleQuotedIsLiteral ==
  \A P \in Programs, X \in C7_Texts :
    (pc = "execute" /\ line = P \o <<SP, SQ>> \o X \o <<SQ>>) =>
      spawned = <<Child(<<P, X>>, "status", TRUE)>>

----------------------------------------------------------------------------
(* C8, C9, C10: &&, || and ; between two commands.                         *)

\* The line "L op R", with or without the blanks.
TwoCommands(L, op, R) ==
  {L \o op \o R, L \o <<SP>> \o op \o <<SP>> \o R}

\* The outcome of running program P alone.
OutcomeOf(P) ==
  IF exit_code[P] = 0 THEN Ok ELSE Failed("Command failed with code", exit_code[P])

\* P was run once, as a plain command without arguments.
Ran(P) == Child(<<P>>, "status", TRUE)

\* C8: for L && R, L is run first; if L succeeds R is run and the outcome is
\* R's; if L fails R is not run and the outcome is L's failure.
C8_AndRunsRightOnSuccess ==
  \A L \in Programs, R \in Programs :
    (pc = "execute" /\ line \in TwoCommands(L, <<"&", "&">>, R)) =>
      IF exit_code[L] = 0
        THEN spawned = <<Ran(L), Ran(R)>> /\ outcome = OutcomeOf(R)
        ELSE spawned = <<Ran(L)>> /\ outcome = OutcomeOf(L)

\* C9: for L || R, L is run first; if L fails R is run and the outcome is
\* R's; if L succeeds R is not run and the outcome is L's success.
C9_OrRunsRightOnFailure ==
  \A L \in Programs, R \in Programs :
    (pc = "execute" /\ line \in TwoCommands(L, <<"|", "|">>, R)) =>
      IF exit_code[L] # 0
        THEN spawned = <<Ran(L), Ran(R)>> /\ outcome = OutcomeOf(R)
        ELSE spawned = <<Ran(L)>> /\ outcome = Ok

\* C10: for L ; R, L is run, then R whatever L returned, and the outcome of
\* the whole is R's outcome.
C10_SeqReturnsRightOutcome ==
  \A L \in Programs, R \in Programs :
    (pc = "execute" /\ line \in TwoCommands(L, <<";">>, R)) =>
      /\ spawned = <<Ran(L), Ran(R)>>
      /\ outcome = OutcomeOf(R)

----------------------------------------------------------------------------
(* C11: the outcome of a pipeline is the status of its last stage.         *)

\* The command is a pipeline of at least two stages whose programs all
\* exist.
IsPipeline(t) ==
  /\ t.kind = "BinaryOp"
  /\ \A k \in 1..Len(StagesOf(t)) : Found(StagesOf(t)[k].args[1])

\* The program of the last stage.
LastProgram(t) == StagesOf(t)[Len(StagesOf(t))].args[1]

\* C11: for every pipeline of n >= 2 stages, run by run_pipe or by either
\* handle_pipe, the outcome is success iff the last stage exits 0, whatever
\* the exit codes of the stages before it.
C11_LastStageDecides ==
  (pc \in {"run_pipe", "handle_pipe", "symbols_handle_pipe"} /\ IsPipeline(tree)) =>
    (outcome.kind = "Ok" <=> exit_code[LastProgram(tree)] = 0)

----------------------------------------------------------------------------
(* C12: a pipe chain is n processes on n - 1 pipes, left to right.         *)

\* The calls of one kind in the trace, in order.
CallsOf(op) ==
  LET is(call) == call.op = op IN SelectSeq(trace, is)

\* The position in the trace of the call op for stage i.
PositionOf(op, i) ==
  CHOOSE k \in 1..Len(trace) : trace[k].op = op /\ trace[k].stage = i

----------------------------------------------------------------------------
(* C13: a background command is not waited for.                            *)

----------------------------------------------------------------------------
(* C14: a redirection that fails starts no process.                        *)

\* The line redirects program P and the redirection cannot be done: the
\* target cannot be opened, the kind (<) is rejected, or the file name is
\* missing.
RedirectionFails(P) ==
  \/ \E F \in unopenable : line = P \o <<SP, ">", SP>> \o F
  \/ \E F \in Programs : line = P \o <<SP, "<", SP>> \o F
  \/ line = P \o <<SP, ">">>

\* C14: when the redirection of the line fails, shell::execute returns a
\* failure and no process has been started while the line was handled.
C14_FailedRedirectSpawnsNothing ==
  \A P \in Programs :
    (pc = "execute" /\ RedirectionFails(P)) =>
      /\ outcome.kind = "Err"
      /\ spawned = <<>>

----------------------------------------------------------------------------
(* C15: a non-zero exit code is a failure carrying the code.               *)

\* C15: for every external command whose program exists, run by
\* execute_external or by either execute_external_command, an exit code c
\* other than 0 gives a failure carrying c, and exit code 0 gives success.
C15_NonZeroExitFails ==
  \A P \in Programs :
    (/\ pc \in {"execute_external", "execute_external_command",
                "mod_execute_external_command"}
     /\ tree = Single(<<P>>)) =>
      IF exit_code[P] = 0
        THEN outcome = Ok
        ELSE outcome.kind = "Err" /\ outcome.code = exit_code[P]

----------------------------------------------------------------------------
(* C16: no panic is reachable.                                             *)

\* C16: for every line, shell::execute ends in a returned success or
\* failure, or in the termination by exit; it never ends in a panic.
C16_NoPanic ==
  pc = "execute" => outcome.kind \in {"Ok", "Err", "Exit"}

----------------------------------------------------------------------------
(* C17: an exported value is what a lookup yields.                         *)

\* The name and the value of an export argument NAME=VALUE.
ExportedName(arg) == SubSeq(arg, 1, FindChar(arg, "=") - 1)
ExportedValue(arg) == Suffix(arg, FindChar(arg, "=") + 1)

\* The exports of name so far, and the value of the last of them.
ExportsOf(name) == {k \in 1..Len(toks) : ExportedName(toks[k]) = name}
LastExported(name) ==
  ExportedValue(toks[CHOOSE k \in ExportsOf(name) : \A j \in ExportsOf(name) : j <= k])

\* C17: after export NAME=VALUE succeeded, get_env_var(NAME) and the
\* expansions of $NAME and ${NAME} yield the value of the last export of
\* NAME, also when the inherited environment holds another value for NAME.
C17_OverlayBeforeEnvironment ==
  \A name \in EnvNames :
    ExportsOf(name) # {} =>
      /\ (pc = "get_env_var" /\ line = name) => lookup = LastExported(name)
      /\ (pc = "expand" /\ line \in {Dollar(name), DollarBraced(name)}) =>
           (lookup.kind = "Ok" /\ lookup.val = LastExported(name))

----------------------------------------------------------------------------
(* C18: alias expansion stops after at most ten substitutions.             *)

\* The text after n substitutions of the alias at its head.
RECURSIVE AfterSubstitutions(_, _, _)
AfterSubstitutions(text, n, map) ==
  IF n = 0 THEN text
  ELSE CHOOSE after \in
         {expand_aliases_new_cmd(before, map) :
            before \in {AfterSubstitutions(text, n - 1, map)}} : TRUE

\* The text still begins with the name of an alias.
AliasPending(text, map) == lookup_alias(alias_first_part(text), map) # None

----------------------------------------------------------------------------
(* C19: a wildcard that matches nothing stays as it is.                    *)

\* The name matches the pattern, '*' standing for any text.
RECURSIVE GlobMatch(_, _)
GlobMatch(pattern, name) ==
  IF pattern = <<>> THEN name = <<>>
  ELSE IF pattern[1] = "*" THEN
    GlobMatch(Tail(pattern), name) \/ (name # <<>> /\ GlobMatch(pattern, Tail(name)))
  ELSE name # <<>> /\ pattern[1] = name[1] /\ GlobMatch(Tail(pattern), Tail(name))

\* No entry of the token's directory matches its last component: the
\* directory cannot be read, is empty, or holds other names only.
NoEntryMatches(token) ==
  \/ unopenable # {}
  \/ \A k \in 1..Len(dir_entries) :
       ~GlobMatch(Suffix(token, RFindChar(token, "/") + 1), dir_entries[k])

\* C19: for a token with a '*' of which no directory entry is a match, the
\* expansion (b_symbols::expand_wildcard, parse::process_tokens) is the
\* one-element list of the token itself, never the empty list.
C19_NoMatchKeepsPattern ==
  (/\ pc \in {"expand_wildcard", "process_tokens"}
   /\ HasChar(line, "*")
   /\ NoEntryMatches(line)) => toks = <<line>>

----------------------------------------------------------------------------
(* C20: brace expansion is the cross product of the brace sets.            *)

\* The number of '{' less the number of '}' in str[a..b].
BraceDepth(str, a, b) ==
  Cardinality({k \in a..b : str[k] = "{"}) - Cardinality({k \in a..b : str[k] = "}"})

\* Every brace of str belongs to a matched pair.
BracesMatched(str) ==
  /\ BraceDepth(str, 1, Len(str)) = 0
  /\ \A k \in 1..Len(str) : BraceDepth(str, 1, k) >= 0

\* The '}' that closes the '{' at i.
MatchingClose(str, i) ==
  CHOOSE j \in (i + 1)..Len(str) :
    /\ str[j] = "}" /\ BraceDepth(str, i, j) = 0
    /\ \A k \in (i + 1)..(j - 1) : ~(str[k] = "}" /\ BraceDepth(str, i, k) = 0)

\* The numbers of a set in increasing order.
RECURSIVE Ascending(_)
Ascending(set) ==
  IF set = {} THEN <<>>
  ELSE LET least == CHOOSE x \in set : \A y \in set : x <= y
       IN <<least>> \o Ascending(set \ {least})

\* The alternatives of the brace set str[i..j]: the text between the commas
\* that are not inside an inner brace set.
Alternatives(str, i, j) ==
  LET commas == {k \in (i + 1)..(j - 1) : str[k] = "," /\ BraceDepth(str, i + 1, k) = 0}
      cuts   == <<i>> \o Ascending(commas) \o <<j>>
  IN [k \in 1..(Len(cuts) - 1) |-> SubSeq(str, cuts[k] + 1, cuts[k + 1] - 1)]

\* The expansion of a balanced token: for its first brace set, every
\* alternative in order, itself expanded, between the text before the set
\* and every expansion of the text after it.
RECURSIVE BraceProduct(_)
BraceProduct(str) ==
  LET i == FindChar(str, "{") IN
    IF i = 0 THEN <<str>>
    ELSE LET j          == MatchingClose(str, i)
             alts       == Alternatives(str, i, j)
             tails      == BraceProduct(Suffix(str, j + 1))
             inner(alt) == BraceProduct(alt)
             with(mid)  == [t \in 1..Len(tails) |-> SubSeq(str, 1, i - 1) \o mid \o tails[t]]
         IN FlatMap(with, FlatMap(inner, alts))

\* C20: for a token whose braces are all matched, expand_braces and
\* process_tokens return the cross product of its brace sets, nested sets
\* included (a{b,{c,d}} gives ab, ac, ad), and no result holds a brace.
C20_BraceCrossProduct ==
  (/\ pc \in {"expand_braces", "process_tokens"}
   /\ HasChar(line, "{")
   /\ BracesMatched(line)) =>
     /\ toks = BraceProduct(line)
     /\ \A k \in 1..Len(toks) : ~HasChar(toks[k], "{") /\ ~HasChar(toks[k], "}")

----------------------------------------------------------------------------
(* C21: a malformed export changes nothing.                                *)

\* An argument of export that is not of the form name=value.
Malformed(arg) == ~HasChar(arg, "=")

\* C21: when one of the arguments of export is not of the form name=value,
\* the call returns a failure and the overlay is what it was before the
\* call, the well-formed arguments of the same call included.
C21_MalformedExportChangesNothing ==
  (/\ pc \in {"export_arguments", "builtins_export"}
   /\ \E k \in 1..Len(lookup.args) : Malformed(lookup.args[k])) =>
     /\ outcome.kind = "Err"
     /\ env_vars = lookup.before

----------------------------------------------------------------------------
(* C22: expansion leaves a plain token as it is.                           *)

\* The token holds none of the characters that start an expansion.
PlainToken(token) == \A c \in {"$", "~", "{", "*"} : ~HasChar(token, c)

\* The functions that expand a token.
ExpansionPaths ==
  {"utils_expand", "shell_expand_tokens", "b_symbols_expand_tokens", "process_tokens"}

\* The token holds no quote, no backslash and none of the characters that
\* b_symbols::expand_tokens makes tokens of their own.
NoQuoteNoOperator(token) ==
  \A c \in {SQ, DQ, BS, ";", "|", "&", "<", ">"} : ~HasChar(token, c)

----------------------------------------------------------------------------
(* C23: the shell keeps no pipe end it does not need.                      *)

\* The stages of the pipe that run_pipe is handling.
Stages == flatten_pipes(<<tree>>)

\* run_pipe is between two turns of its loop, is waiting, or has returned
\* after waiting.
BetweenStages ==
  \/ pc \in {"run_pipe", "run_pipe_wait"}
  \/ pc = "returned" /\ lookup.i > Len(Stages)

\* C23: between the turns of run_pipe's loop the shell holds no write end
\* and at most the read end of the pipe of the stage it spawned last, that
\* only while a stage is still to be spawned; when it waits it holds no
\* pipe end; every stage holds nothing but its stdin and stdout, so that
\* the write end of pipe k is held by stage k alone.
C23_ParentClosesPipeEnds ==
  BetweenStages =>
    /\ \A fd \in lookup.fds : fd.end # "write"
    /\ lookup.fds \subseteq
         (IF 1 < lookup.i /\ lookup.i <= Len(Stages)
            THEN {Fd("read", lookup.i - 1)} ELSE {})
    /\ lookup.i > Len(Stages) => lookup.fds = {}
    /\ \A k \in 1..Len(lookup.children) :
         /\ lookup.children[k].open = {}
         /\ \A j \in 1..Len(lookup.children) :
              lookup.children[j].stdout = Fd("write", k) => j = k

\* The shell waits for three stages it has spawned.
C23_Witness ==
  /\ pc = "run_pipe_wait"
  /\ Len(Stages) = 3
  /\ Len(lookup.children) = 3
  /\ lookup.children[2].stdin = Fd("read", 1)
  /\ lookup.children[2].stdout = Fd("write", 2)
  /\ lookup.fds = {}

----------------------------------------------------------------------------
(* C24: a child has the default disposition of SIGINT and SIGQUIT.         *)

\* The child runs a user program: it replaces its own program, or it is
\* the background child that runs the command.
RunsUserProgram(child) == child.ends = "exec" \/ child.setsid

\* C24: every child that runs a user program has SIGINT and SIGQUIT at
\* their default disposition when it does, whatever the shell's own
\* disposition is; the background child has also called setsid and ignores
\* SIGTTIN and SIGTTOU.
C24_ChildSignalsDefault ==
  \A k \in 1..Len(lookup.children) :
    RunsUserProgram(lookup.children[k]) =>
      /\ lookup.children[k].sigint = "SIG_DFL"
      /\ lookup.children[k].sigquit = "SIG_DFL"
      /\ pc = "run_background" =>
           /\ lookup.children[k].setsid
           /\ lookup.children[k].sigttin = "SIG_IGN"
           /\ lookup.children[k].sigttou = "SIG_IGN"

----------------------------------------------------------------------------
(* C27: a forked child never goes on in the shell's code.                  *)

\* C27: every child of a fork in run_pipe and in run_background leaves the
\* shell's code by replacing its program or by ending the process, never
\* by returning into the caller.
C27_ChildNeverReturns ==
  pc \in {"run_pipe", "run_pipe_wait", "returned", "run_background"} =>
    \A k \in 1..Len(lookup.children) : lookup.children[k].ends # "return"

----------------------------------------------------------------------------
(* C28: every stage that was spawned is waited for.                        *)

\* C28: when run_pipe has returned, with or without a failure, every child
\* it has forked has been waited for and the shell holds no pipe end.
C28_EveryStageWaited ==
  pc = "returned" =>
    /\ \A k \in 1..Len(lookup.children) : lookup.children[k].waited
    /\ lookup.fds = {}

----------------------------------------------------------------------------
(* C25: matches_pattern is glob matching with '*'.                         *)

\* C25: matches_pattern returns, and returns true exactly for the names
\* the pattern matches when '*' stands for any run of characters, the empty
\* one included, and every other character for itself.
C25_MatchesPatternIsGlob ==
  pc = "matches_pattern" => (lookup <=> GlobMatch(line, toks[1]))

\* A pattern with a star in the middle and one at the end has matched a
\* name by giving the first star two characters and the last one none.
C25_Witness ==
  /\ pc = "matches_pattern"
  /\ line = <<"a", "*", "*">>
  /\ toks[1] = <<"a", "b", "a">>
  /\ lookup

----------------------------------------------------------------------------
(* C26: a command of the line is spawned at most once.                     *)

\* The children that run program P.
ChildrenOf(P) == {k \in 1..Len(spawned) : spawned[k].argv # <<>> /\ spawned[k].argv[1] = P}

\* The places of the line where the one-letter name of P stands: no more
\* commands of the line can name P.
MentionsOf(P) == {i \in 1..Len(line) : line[i] = P[1]}

\* C26: handling a line starts a program at most as often as the line
\* names it; in particular a command that failed under an operator is not
\* started again with the rest of the line as its arguments.
C26_EachCommandOnce ==
  pc = "execute" =>
    \A P \in Programs : Cardinality(ChildrenOf(P)) <= Cardinality(MentionsOf(P))

----------------------------------------------------------------------------
(* C29: parse_input returns ordinary words as they are.                    *)

\* The line is letters, digits and blanks only.
OrdinaryWords(str) ==
  \A i \in 1..Len(str) : str[i] \in {"a", "b", "0", "2", "4", SP, TAB}

\* C29: for a line of letters, digits and blanks, the tokens parse_input
\* returns are the whitespace-separated words of the line, character for
\* character.
C29_OrdinaryWordsKept ==
  (pc = "parse_input" /\ OrdinaryWords(line)) => toks = SplitWhitespace(line)

----------------------------------------------------------------------------
(* C30: the operator scan and the tokenizer agree on what is quoted.       *)

\* tokenize's in_single and in_double when its loop is about to read
\* position upto of input (a position consumed by a backslash, or skipped
\* after a comment, keeps the state of the iteration that consumed it).
RECURSIVE tokenize_state(_, _, _, _, _, _)
tokenize_state(input, upto, i, in_single, in_double, found_comment) ==
  IF i >= upto \/ i > Len(input) THEN
    [in_single |-> in_single, in_double |-> in_double]
  ELSE IF found_comment THEN
    tokenize_state(input, upto, i + 1, in_single, in_double, TRUE)
  ELSE LET c == input[i] IN
    IF c = BS THEN
      tokenize_state(input, upto, IF i + 1 <= Len(input) THEN i + 2 ELSE i + 1,
                     in_single, in_double, FALSE)
    ELSE IF c = DQ /\ ~in_single THEN
      tokenize_state(input, upto, i + 1, in_single, ~in_double, FALSE)
    ELSE IF c = SQ /\ ~in_double THEN
      tokenize_state(input, upto, i + 1, ~in_single, in_double, FALSE)
    ELSE IF c = HASH /\ ~in_single /\ ~in_double THEN
      tokenize_state(input, upto, i + 1, in_single, in_double, TRUE)
    ELSE
      tokenize_state(input, upto, i + 1, in_single, in_double, FALSE)

\* tokenize holds position i of s to be inside quotes.
TokenizeQuoted(s, i) ==
  LET st == tokenize_state(s, i, 1, FALSE, FALSE, FALSE)
  IN st.in_single \/ st.in_double

\* C30: once parse_syntax has scanned the line, at every position the scan
\* of find_outside_quotes is inside quotes exactly when tokenize's state
\* there is in_single or in_double; so an operator after a closed region
\* that holds a quote of the other kind is still a split point.
C30_ScanAgreesWithTokenize ==
  pc = "parse_syntax" =>
    \A i \in 1..Len(line) : (ScanQuote(line, i) # "") <=> TokenizeQuoted(line, i)

====
